---- MODULE Spec2Model ----
(***************************************************************************)
(* A model of nthm, a library of non-preemptive thread hierarchy managers.  *)
(* Pipes, their scope stacks, the root pool and the thread contexts are     *)
(* modelled from src/api.c, plumbing.c, protocol.c, scopes.c, pipes.c,      *)
(* pool.c and sync.c.  A pipe is identified with the thread that owns it:   *)
(* pipes 1..MaxWorkers belong to threads made by nthm_open, and the pipes   *)
(* Main and Other are the placeholders of two unmanaged threads.            *)
(***************************************************************************)
EXTENDS Integers, Sequences, FiniteSets, TLC

\* number of worker threads nthm_open may create
MaxWorkers == 3
\* number of workers created where every thread may make every call
MaxOpen == 2
\* largest value a user function returns
MaxValue == 2
\* deepest scope level a thread enters
MaxLevel == 1

\* the value user code leaves in its error variable when it leaves one
UserError == 1

\* the number of workers opened where every call of the API is made
ErrOpen == 1

\* the width in bits of the truncation counter, an unsigned in the source
UnsignedBits == 1

Workers == 1..MaxWorkers
Main == MaxWorkers + 1
Other == MaxWorkers + 2
Unmanaged == {Main, Other}
Threads == Workers \cup Unmanaged
Pipes == Threads
Values == 1..MaxValue

NTHM_UNMANT == -16
NTHM_NOTDRN == -17
NTHM_KILLED == -20
NTHM_UNDFLO == -21
NTHM_XSCOPE == -22

\* an internal error code of the library
THE_IER(n) == 0 - n

\* a scope stack frame
NoDescendants == [blockers |-> <<>>, finishers |-> <<>>, truncation |-> 0]

\* a pipe as nthm_new_pipe makes it
NewPipe(ph) ==
  [valid |-> TRUE, killed |-> FALSE, yielded |-> FALSE, reader |-> 0,
   depth |-> 0, pool |-> FALSE, placeholder |-> ph,
   scope |-> <<NoDescendants>>, result |-> 0, status |-> 0]

\* the storage of a pipe not allocated or freed
FreePipe ==
  [valid |-> FALSE, killed |-> FALSE, yielded |-> FALSE, reader |-> 0,
   depth |-> 0, pool |-> FALSE, placeholder |-> FALSE,
   scope |-> <<>>, result |-> 0, status |-> 0]

\* a sequence without any occurrence of x
Without(q, x) == SelectSeq(q, LAMBDA y : y # x)

Member(q, x) == \E i \in 1..Len(q) : q[i] = x

----------------------------------------------------------------------------
(* Operators on a world w = [p, ctx, sig, err, wt, retired]: the pipes,   *)
(* the thread contexts, the threads with a wake-up pending, the caller's   *)
(* error channel, for each thread the condition it waits on (0 if none, d  *)
(* for the progress of pipe d, -s for the termination of pipe s), and the  *)
(* pipes retired since the call began.                                     *)

\* assign an error code unless one is already there
\* an error raised over whatever the channel holds
IER_overwriting(w, n) == [w EXCEPT !.err = n]

IER(w, n) == IF w.err = 0 THEN [w EXCEPT !.err = n] ELSE w

\* pthread_cond_signal on the progress condition of pipe d
SignalProgress(w, d) ==
  [w EXCEPT !.sig = @ \cup {t \in Threads : w.wt[t] = d}]

\* pthread_cond_signal on the termination condition of pipe s
SignalTermination(w, s) ==
  [w EXCEPT !.sig = @ \cup {t \in Threads : w.wt[t] = 0 - s}]

_nthm_scope_level(w, p) == Len(w.p[p].scope) - 1

\* a test that takes any tethered pipe to be drained by d
drained_by_anyone(w, s, d) == d # 0 /\ w.p[s].reader # 0

_nthm_drained_by(w, s, d) ==
  /\ d # 0
  /\ w.p[s].valid
  /\ w.p[s].reader = d
  /\ w.p[d].valid
  /\ w.p[s].depth = _nthm_scope_level(w, d)

\* the pipe q is as the comments of _nthm_retired and _nthm_retirable want a
\* pipe that is torn down: no drain, no enclosing scope, no blockers and no
\* finishers, and a placeholder or a worker that has yielded and was killed
Fit(q) ==
  /\ q.reader = 0
  /\ Len(q.scope) = 1
  /\ q.scope[1].blockers = <<>>
  /\ q.scope[1].finishers = <<>>
  /\ (q.placeholder \/ (q.yielded /\ q.killed))

\* the pipes a call retired when they were not fit to be, each entry of
\* w.retired being a pipe with the fields it had when it was retired
Unfit(w) == {x[1] : x \in {y \in w.retired : ~ Fit(y[2])}}

\* whether the pipe p is ready to be retired
_nthm_retirable(w, p) ==
  /\ w.p[p].valid
  /\ Len(w.p[p].scope) = 1
  /\ w.p[p].scope[1].blockers = <<>>
  /\ w.p[p].scope[1].finishers = <<>>
  /\ (w.p[p].placeholder \/ (w.p[p].yielded /\ w.p[p].killed))

\* pop the top frame unless it has descendants; reports success either way
_nthm_scope_exited(w, p) ==
  LET e == Head(w.p[p].scope)
  IN  IF e.blockers # <<>> THEN IER(w, THE_IER(285))
      ELSE IF e.finishers # <<>> THEN IER(w, THE_IER(286))
      ELSE [w EXCEPT !.p[p].scope = Tail(@)]

_nthm_retired(w, p) ==
  IF ~ w.p[p].valid THEN [w |-> IER(w, THE_IER(89)), ok |-> FALSE]
  ELSE IF Len(w.p[p].scope) > 1 THEN [w |-> IER(w, THE_IER(91)), ok |-> FALSE]
  ELSE [w |-> [_nthm_scope_exited(w, p) EXCEPT
                 !.p[p] = FreePipe,
                 !.retired = @ \cup {<<p, w.p[p]>>}],
        ok |-> TRUE]

_nthm_placed(w, d) ==
  IF ~ w.p[d].valid THEN [w |-> IER(w, THE_IER(222)), ok |-> FALSE]
  ELSE [w |-> [w EXCEPT !.p[d].pool = TRUE], ok |-> TRUE]

_nthm_displace(w, p) ==
  IF ~ w.p[p].valid THEN IER(w, THE_IER(229))
  ELSE [w EXCEPT !.p[p].pool = FALSE]

_nthm_pooled(w, d) ==
  IF ~ _nthm_retirable(w, d) THEN _nthm_placed(w, d)
  ELSE _nthm_retired(_nthm_displace(w, d), d)

\* an unpooling that leaves the context of the thread as it is
unpool_keeping_context(w, p, t) ==
  IF ~ _nthm_retirable(w, p) THEN w
  ELSE LET r == _nthm_retired(_nthm_displace(w, p), p)
       IN  IF ~ r.ok THEN IER(r.w, THE_IER(236)) ELSE r.w

\* retire pipe p if possible, clearing the context of thread t if p was it
_nthm_unpool(w, p, t) ==
  IF ~ _nthm_retirable(w, p) THEN w
  ELSE LET c == w.p[p].placeholder /\ w.ctx[t] = p
           r == _nthm_retired(_nthm_displace(w, p), p)
       IN  IF ~ r.ok THEN IER(r.w, THE_IER(236))
           ELSE IF c THEN [r.w EXCEPT !.ctx[t] = 0]
           ELSE r.w

\* a tether that enters a source that has yielded in both lists
tethered_in_both(w, s, d) ==
  IF ~ w.p[d].valid THEN [w |-> IER(w, THE_IER(160)), ok |-> FALSE]
  ELSE IF ~ w.p[s].valid THEN [w |-> IER(w, THE_IER(162)), ok |-> FALSE]
  ELSE IF w.p[s].reader # 0
    THEN IF _nthm_drained_by(w, s, d)
           THEN [w |-> _nthm_displace(w, s), ok |-> TRUE]
           ELSE [w |-> _nthm_displace(IER(w, NTHM_NOTDRN), s), ok |-> FALSE]
  ELSE IF w.p[s].killed
    THEN [w |-> _nthm_displace(IER(w, THE_IER(164)), s), ok |-> FALSE]
  ELSE LET e  == Head(w.p[d].scope)
           e1 == IF w.p[s].yielded
                   THEN [e EXCEPT !.finishers = Append(@, s),
                                  !.blockers = <<s>> \o @]
                   ELSE [e EXCEPT !.blockers = <<s>> \o @]
           w1 == [w EXCEPT !.p[d].scope = <<e1>> \o Tail(@),
                           !.p[s].reader = d,
                           !.p[s].depth = _nthm_scope_level(w, d)]
       IN  [w |-> _nthm_displace(w1, s), ok |-> TRUE]

\* _nthm_tethered without taking the tethered pipe out of the root pool
tethered_and_pooled(w, s, d) ==
  IF ~ w.p[d].valid THEN [w |-> IER(w, THE_IER(160)), ok |-> FALSE]
  ELSE IF ~ w.p[s].valid THEN [w |-> IER(w, THE_IER(162)), ok |-> FALSE]
  ELSE IF w.p[s].reader # 0
    THEN IF _nthm_drained_by(w, s, d)
           THEN [w |-> w, ok |-> TRUE]
           ELSE [w |-> IER(w, NTHM_NOTDRN), ok |-> FALSE]
  ELSE IF w.p[s].killed
    THEN [w |-> IER(w, THE_IER(164)), ok |-> FALSE]
  ELSE LET e  == Head(w.p[d].scope)
           e1 == IF w.p[s].yielded
                   THEN [e EXCEPT !.finishers = Append(@, s)]
                   ELSE [e EXCEPT !.blockers = <<s>> \o @]
           w1 == [w EXCEPT !.p[d].scope = <<e1>> \o Tail(@),
                           !.p[s].reader = d,
                           !.p[s].depth = _nthm_scope_level(w, d)]
       IN  [w |-> w1, ok |-> TRUE]

\* a tethering that takes the source for one that runs
_nthm_tethered_as_running(w, s, d) ==
  IF ~ w.p[d].valid THEN [w |-> IER(w, THE_IER(160)), ok |-> FALSE]
  ELSE IF ~ w.p[s].valid THEN [w |-> IER(w, THE_IER(162)), ok |-> FALSE]
  ELSE IF w.p[s].reader # 0
    THEN IF _nthm_drained_by(w, s, d)
           THEN [w |-> _nthm_displace(w, s), ok |-> TRUE]
           ELSE [w |-> _nthm_displace(IER(w, NTHM_NOTDRN), s), ok |-> FALSE]
  ELSE IF w.p[s].killed
    THEN [w |-> _nthm_displace(IER(w, THE_IER(164)), s), ok |-> FALSE]
  ELSE LET e  == Head(w.p[d].scope)
           e1 == [e EXCEPT !.blockers = <<s>> \o @]
           w1 == [w EXCEPT !.p[d].scope = <<e1>> \o Tail(@),
                           !.p[s].reader = d,
                           !.p[s].yielded = FALSE,
                           !.p[s].depth = _nthm_scope_level(w, d)]
       IN  [w |-> _nthm_displace(w1, s), ok |-> TRUE]

\* tether source s to drain d in the top frame of d
_nthm_tethered(w, s, d) ==
  IF ~ w.p[d].valid THEN [w |-> IER(w, THE_IER(160)), ok |-> FALSE]
  ELSE IF ~ w.p[s].valid THEN [w |-> IER(w, THE_IER(162)), ok |-> FALSE]
  ELSE IF w.p[s].reader # 0
    THEN IF _nthm_drained_by(w, s, d)
           THEN [w |-> _nthm_displace(w, s), ok |-> TRUE]
           ELSE [w |-> _nthm_displace(IER(w, NTHM_NOTDRN), s), ok |-> FALSE]
  ELSE IF w.p[s].killed
    THEN [w |-> _nthm_displace(IER(w, THE_IER(164)), s), ok |-> FALSE]
  ELSE LET e  == Head(w.p[d].scope)
           e1 == IF w.p[s].yielded
                   THEN [e EXCEPT !.finishers = Append(@, s)]
                   ELSE [e EXCEPT !.blockers = <<s>> \o @]
           w1 == [w EXCEPT !.p[d].scope = <<e1>> \o Tail(@),
                           !.p[s].reader = d,
                           !.p[s].depth = _nthm_scope_level(w, d)]
       IN  [w |-> _nthm_displace(w1, s), ok |-> TRUE]

\* take s out of whichever lists of d hold it, freeing both list entries
_nthm_bilaterally_dequeued(w, s, d) ==
  [w EXCEPT !.p[d].scope =
               [i \in 1..Len(@) |->
                  [@[i] EXCEPT !.blockers = Without(@, s),
                               !.finishers = Without(@, s)]],
            !.p[s].reader = 0]

\* separate s from its drain, which must be the context of thread t
_nthm_untethered(w, s, t) ==
  IF ~ w.p[s].valid THEN [w |-> IER(w, THE_IER(171)), ok |-> FALSE]
  ELSE IF w.p[s].reader = 0 THEN _nthm_pooled(w, s)
  ELSE IF ~ _nthm_drained_by(w, s, w.ctx[t])
    THEN [w |-> IER(w, NTHM_NOTDRN), ok |-> FALSE]
  ELSE LET d  == w.ctx[t]
           w1 == _nthm_bilaterally_dequeued(w, s, d)
           w2 == _nthm_unpool(w1, d, t)
       IN  _nthm_pooled(w2, s)

\* kill s and untether it from the context of thread t
_nthm_killable(w, s, t) ==
  IF ~ w.p[s].valid THEN [w |-> IER(w, THE_IER(186)), ok |-> FALSE]
  ELSE LET w1 == [w EXCEPT !.p[s].killed = TRUE]
           w2 == IF w.p[s].yielded THEN w1 ELSE SignalProgress(w1, s)
       IN  _nthm_untethered(w2, s, t)

\* untether every descendant in the top frame of p, the context of thread t
RECURSIVE _nthm_descendants_untethered(_, _, _)
_nthm_descendants_untethered(w, p, t) ==
  IF ~ w.p[p].valid \/ w.p[p].scope = <<>> THEN w
  ELSE LET e == Head(w.p[p].scope)
           c == IF e.finishers # <<>> THEN Head(e.finishers)
                ELSE IF e.blockers # <<>> THEN Head(e.blockers)
                ELSE 0
       IN  IF c = 0 THEN w
           ELSE LET r == _nthm_untethered(w, c, t)
                IN  IF r.ok THEN _nthm_descendants_untethered(r.w, p, t)
                    ELSE r.w

\* leave every scope but the outermost; hung tells that the loop cannot end
RECURSIVE _nthm_vacate_scopes(_, _, _)
_nthm_vacate_scopes(w, s, t) ==
  IF ~ w.p[s].valid \/ Len(w.p[s].scope) <= 1 THEN [w |-> w, hung |-> FALSE]
  ELSE LET w1 == _nthm_descendants_untethered(IER(w, NTHM_XSCOPE), s, t)
           w2 == _nthm_scope_exited(w1, s)
       IN  IF ~ w2.p[s].valid THEN [w |-> w2, hung |-> FALSE]
           ELSE IF Len(w2.p[s].scope) = Len(w.p[s].scope)
             THEN [w |-> w2, hung |-> TRUE]
           ELSE _nthm_vacate_scopes(w2, s, t)

\* kill and untether the blockers in the top frame of d, the context of t
RECURSIVE blockers_killed(_, _, _)
blockers_killed(w, d, t) ==
  IF ~ w.p[d].valid THEN [w |-> IER(w, THE_IER(190)), ok |-> FALSE]
  ELSE IF w.p[d].placeholder THEN [w |-> IER(w, THE_IER(192)), ok |-> FALSE]
  ELSE IF w.p[d].yielded THEN [w |-> IER(w, THE_IER(194)), ok |-> FALSE]
  ELSE IF Head(w.p[d].scope).blockers = <<>> THEN [w |-> w, ok |-> TRUE]
  ELSE LET r == _nthm_killable(w, Head(Head(w.p[d].scope).blockers), t)
       IN  IF r.ok THEN blockers_killed(r.w, d, t) ELSE r

\* dequeue and retire the finishers in the top frame of d
RECURSIVE finishers_retired(_, _)
finishers_retired(w, d) ==
  IF Head(w.p[d].scope).finishers = <<>> THEN [w |-> w, ok |-> TRUE]
  ELSE LET f  == Head(Head(w.p[d].scope).finishers)
           w1 == _nthm_bilaterally_dequeued(w, f, d)
       IN  IF ~ w1.p[f].valid THEN [w |-> IER(w1, THE_IER(203)), ok |-> FALSE]
           ELSE IF w1.p[f].pool THEN [w |-> IER(w1, THE_IER(204)), ok |-> FALSE]
           ELSE LET r == _nthm_retired(w1, f)
                IN  IF r.ok THEN finishers_retired(r.w, d) ELSE r

_nthm_descendants_killed(w, d, t) ==
  LET r == blockers_killed(w, d, t)
  IN  IF r.ok THEN finishers_retired(r.w, d) ELSE r

\* the error channel is stored in the pipe unless it was killed or has a status
untethered_yield(w, s) ==
  LET w1 == SignalTermination([w EXCEPT !.p[s].yielded = TRUE], s)
  IN  IF ~ w.p[s].killed /\ w.p[s].status = 0 /\ w.err # 0
        THEN [w1 EXCEPT !.p[s].status = w.err, !.err = 0]
        ELSE w1

\* a yield into the top frame of the drain, whatever frame s was tethered in
tethered_yield_on_top(w, s) ==
  LET d == w.p[s].reader
  IN  SignalProgress(
        [w EXCEPT !.p[d].scope =
                     [i \in 1..Len(@) |->
                        [@[i] EXCEPT
                           !.blockers = Without(@, s),
                           !.finishers = IF i = 1 THEN Append(@, s) ELSE @]],
                  !.p[s].yielded = TRUE], d)

\* a tethered yield that does not signal the progress of the drain
tethered_yield_unsignalled(w, s) ==
  LET d == w.p[s].reader
      l == _nthm_scope_level(w, d) - w.p[s].depth
  IN  IF ~ w.p[d].valid THEN IER(w, THE_IER(260))
      ELSE IF l < 0 THEN IER(w, THE_IER(263))
      ELSE LET w1 == [w EXCEPT
                        !.p[d].scope =
                           [i \in 1..Len(@) |->
                              [@[i] EXCEPT
                                 !.blockers = Without(@, s),
                                 !.finishers =
                                    IF i = l + 1 THEN Append(@, s) ELSE @]],
                        !.p[s].yielded = TRUE]
           IN  IF w.p[s].status = 0 /\ w.err # 0
                 THEN [w1 EXCEPT !.p[s].status = w.err, !.err = 0]
                 ELSE w1

\* move s from the blockers to the finishers of the frame it was tethered in
tethered_yield(w, s) ==
  LET d == w.p[s].reader
      l == _nthm_scope_level(w, d) - w.p[s].depth
  IN  IF ~ w.p[d].valid THEN IER(w, THE_IER(260))
      ELSE IF l < 0 THEN IER(w, THE_IER(263))
      ELSE LET w1 == [w EXCEPT
                        !.p[d].scope =
                           [i \in 1..Len(@) |->
                              [@[i] EXCEPT
                                 !.blockers = Without(@, s),
                                 !.finishers =
                                    IF i = l + 1 THEN Append(@, s) ELSE @]],
                        !.p[s].yielded = TRUE]
               w2 == SignalProgress(w1, d)
           IN  IF w.p[s].status = 0 /\ w.err # 0
                 THEN [w2 EXCEPT !.p[s].status = w.err, !.err = 0]
                 ELSE w2

\* what the manager of s does when the user function has returned
yield(w, s, t) ==
  LET r == _nthm_descendants_killed(w, s, t)
  IN  IF ~ r.ok THEN r.w
      ELSE IF r.w.p[s].killed \/ r.w.p[s].reader = 0
        THEN untethered_yield(r.w, s)
      ELSE tethered_yield(r.w, s)

\* walk up the tether chain from p for at most n drains: "yes" if p or a
\* drain above it has yielded or been killed, "no" if the chain ends without
\* one, "loop" if the chain does not end
RECURSIVE HeritableWalk(_, _, _)
HeritableWalk(w, p, n) ==
  IF w.p[p].yielded \/ w.p[p].killed THEN "yes"
  ELSE IF w.p[p].reader = 0 THEN "no"
  ELSE IF ~ w.p[w.p[p].reader].valid THEN "no"
  ELSE IF n = 0 THEN "loop"
  ELSE HeritableWalk(w, w.p[p].reader, n - 1)

_nthm_heritably_killed_or_yielded(w, p) ==
  HeritableWalk(w, p, Cardinality(Pipes)) = "yes"

\* the walk up the tether chain from p goes round a cycle for ever
Endless(w, p) == HeritableWalk(w, p, Cardinality(Pipes)) = "loop"

\* a truncation that adds one without regard to the width
BumpedAround(c) == (c + 1) % (2 ^ UnsignedBits)

\* the counter after one more truncation: it stays where it is rather than
\* wrap to zero
Bumped(c) ==
  LET bumped == (c + 1) % (2 ^ UnsignedBits)
  IN  IF bumped # 0 THEN bumped ELSE c

\* walk up the tether chain from s for at most n drains, looking in each
\* drain at the frame of the level at which its source was tethered
RECURSIVE TruncationWalk(_, _, _)
TruncationWalk(w, s, n) ==
  IF w.p[s].reader = 0 THEN [w |-> w, h |-> 0]
  ELSE LET d == w.p[s].reader
           l == _nthm_scope_level(w, d) - w.p[s].depth
       IN  IF ~ w.p[d].valid THEN [w |-> IER(w, THE_IER(109)), h |-> 0]
           ELSE IF l < 0 THEN [w |-> IER(w, THE_IER(112)), h |-> 0]
           ELSE IF w.p[d].scope[l + 1].truncation # 0
             THEN [w |-> w, h |-> w.p[d].scope[l + 1].truncation]
           ELSE IF n = 0 THEN [w |-> w, h |-> 0]
           ELSE TruncationWalk(w, d, n - 1)

\* a walk that looks at the current frame of each drain
RECURSIVE TopFrameWalk(_, _, _)
TopFrameWalk(w, s, n) ==
  IF w.p[s].reader = 0 THEN [w |-> w, h |-> 0]
  ELSE LET d == w.p[s].reader
       IN  IF ~ w.p[d].valid THEN [w |-> IER(w, THE_IER(109)), h |-> 0]
           ELSE IF Head(w.p[d].scope).truncation # 0
             THEN [w |-> w, h |-> Head(w.p[d].scope).truncation]
           ELSE IF n = 0 THEN [w |-> w, h |-> 0]
           ELSE TopFrameWalk(w, d, n - 1)

truncated_by_current_frames(w, source) ==
  IF ~ w.p[source].valid THEN [w |-> IER(w, THE_IER(106)), h |-> 0]
  ELSE IF w.p[source].yielded THEN [w |-> w, h |-> 1]
  ELSE IF w.p[source].killed THEN [w |-> w, h |-> 1]
  ELSE TopFrameWalk(w, source, Cardinality(Pipes))

_nthm_heritably_truncated(w, source) ==
  IF ~ w.p[source].valid THEN [w |-> IER(w, THE_IER(106)), h |-> 0]
  ELSE IF w.p[source].yielded THEN [w |-> w, h |-> 1]
  ELSE IF w.p[source].killed THEN [w |-> w, h |-> 1]
  ELSE TruncationWalk(w, source, Cardinality(Pipes))

\* the context of thread t, made as a placeholder if there is none
_nthm_current_or_new_context(w, t) ==
  IF w.ctx[t] # 0 THEN w
  ELSE [w EXCEPT !.p[t] = [NewPipe(TRUE) EXCEPT !.pool = TRUE],
                 !.ctx[t] = t]

----------------------------------------------------------------------------
VARIABLES
  p,      \* the pipes
  ctx,    \* the pipe that is the context of each thread, 0 if none
  pc,     \* where each thread is
  sig,    \* the threads that a condition signal has woken
  last,   \* the API call or thread event completed by the latest step
  uv,     \* the value the user function of each worker returned, 0 before
  tally,  \* how often nthm_select returned each worker, in the flat pool
  yorder, \* the workers that have yielded, in the order they yielded
  qorder, \* the pipes in finishers queues, in the order they were queued
  deep,   \* the workers that yielded while their drain was in an inner scope
  sy,     \* the static variables of the sync module, and two histories:
          \* the workers whose nthm_open or nthm_send has returned, and
          \* those of them that had when _nthm_synchronize was last called
  th,     \* where each thread is in the start handshake and the relay race
  woken,  \* the threads a signal or broadcast of the sync module has woken
  joins,  \* how often pthread_join has returned for each worker, up to 2
  failed, \* whether a pthread call has reported a failure
  chan,   \* the error variable each thread passes to the calls it makes
  unfit,  \* the pipes the latest call retired when they were not retirable
  held,   \* the pipe nthm_select returned to each thread, until it is read
  lk      \* the thread that owns the lock of each pipe, the locks each
          \* thread holds in the order it took them, and the steps each
          \* thread has left of the call it is in

pvars == <<p, ctx, pc, sig, last, uv, yorder, qorder, deep, unfit>>
svars == <<sy, th, woken, joins, failed>>
vars == <<p, ctx, pc, sig, last, uv, tally, yorder, qorder, deep,
          sy, th, woken, joins, failed, chan, unfit, held, lk>>

\* a place in the sync module, with no thread to join and not at exit
At(a) == [at |-> a, f |-> 0, x |-> FALSE]

User == [at |-> "user", s |-> 0]
Unborn == [at |-> "unborn", s |-> 0]
Done == [at |-> "done", s |-> 0]
Hung == [at |-> "hung", s |-> 0]

\* the condition each thread waits on
WaitOf ==
  [t \in Threads |->
     IF pc[t].at \in {"read_wait", "select_wait"} THEN ctx[t]
     ELSE IF pc[t].at \in {"uread_wait", "erad_wait"} THEN 0 - pc[t].s
     ELSE 0]

\* the world an API call by a thread starts in, its error channel zero
World ==
  [p |-> p, ctx |-> ctx, sig |-> sig, err |-> 0, wt |-> WaitOf, retired |-> {}]

\* the world an API call by thread t starts in, its error channel as the
\* thread passed it
Entered(t) == [World EXCEPT !.err = chan[t]]

\* the calls whose return is recorded whatever the error channel held
Observed == {"open", "read", "select", "close", "truncated", "blocked"}

\* the record of a call that has come back, or of nothing
Event(t, op, s, val, err, waited) ==
  IF op \in Observed \/ (t \in Threads /\ chan[t] # 0)
    THEN [t |-> t, op |-> op, s |-> s, val |-> val, err |-> err,
          waited |-> waited]
    ELSE [t |-> 0, op |-> "none", s |-> 0, val |-> 0, err |-> 0,
          waited |-> FALSE]

\* no lock is owned and no thread is in a call
NoLocks ==
  [owner |-> [x \in Pipes |-> 0],
   hold  |-> [t \in Threads |-> <<>>],
   todo  |-> [t \in Threads |-> <<>>]]

\* a thread that may call the API: it runs user code and its context is sound
Running(t) ==
  /\ pc[t].at = "user"
  /\ ctx[t] # 0 => p[ctx[t]].valid

Init ==
  /\ chan = [t \in Threads |-> 0]
  /\ unfit = {}
  /\ held = [t \in Threads |-> 0]
  /\ lk = NoLocks
  /\ p = [x \in Pipes |-> FreePipe]
  /\ ctx = [t \in Threads |-> 0]
  /\ pc = [t \in Threads |-> IF t \in Unmanaged THEN User ELSE Unborn]
  /\ sig = {}
  /\ last = Event(0, "none", 0, 0, 0, FALSE)
  /\ uv = [x \in Workers |-> 0]
  /\ tally = [x \in Workers |-> 0]
  /\ yorder = <<>>
  /\ qorder = <<>>
  /\ deep = {}
  /\ sy = [starting |-> FALSE, starters |-> 0, runners |-> 0,
           finishers |-> 0, finishing_thread |-> 0, deadlocked |-> FALSE,
           opened |-> {}, before |-> {}]
  /\ th = [t \in Threads |-> IF t \in Unmanaged THEN At("user") ELSE At("unborn")]
  /\ woken = {}
  /\ joins = [t \in Workers |-> 0]
  /\ failed = FALSE

\* whether pipe s is in a finishers queue of some pipe of P
InFinishers(P, s) ==
  \E d \in Pipes : \E i \in 1..Len(P[d].scope) :
     Member(P[d].scope[i].finishers, s)

\* the order q of queueing brought up to date with the pipes P
Requeued(q, P) ==
  LET new == {s \in Pipes : InFinishers(P, s) /\ ~ Member(q, s)}
  IN  SelectSeq(q, LAMBDA s : InFinishers(P, s))
        \o (IF new = {} THEN <<>> ELSE <<CHOOSE s \in new : TRUE>>)

\* the history variables after a step that leaves the pipes P, where u, y
\* and e are the values and orders it adds to: a pipe that is freed is
\* forgotten
Remembered(P, u, y, e) ==
  /\ uv' = [s \in Workers |-> IF P[s].valid THEN u[s] ELSE 0]
  /\ yorder' = SelectSeq(y, LAMBDA s : P[s].valid)
  /\ qorder' = Requeued(qorder, P)
  /\ deep' = {s \in e : P[s].valid}

\* what a call by t leaves behind: the world w and the event it reports
Returns(t, w, op, s, val, waited) ==
  \E v \in {w} :
    /\ p' = v.p
    /\ ctx' = v.ctx
    /\ sig' = v.sig \ {t}
    /\ pc' = [pc EXCEPT ![t] = User]
    /\ last' = Event(t, op, s, val, v.err, waited)
    /\ Remembered(v.p, uv, yorder, deep)
    /\ unfit' = Unfit(v)

\* thread t blocks at a condition wait
Blocks(t, w, at, s) ==
  \E v \in {w} :
    /\ p' = v.p
    /\ ctx' = v.ctx
    /\ sig' = v.sig \ {t}
    /\ pc' = [pc EXCEPT ![t] = [at |-> at, s |-> s]]
    /\ last' = Event(t, "wait", s, 0, 0, FALSE)
    /\ Remembered(v.p, uv, yorder, deep)
    /\ unfit' = Unfit(v)

\* thread t never comes back from the call
Hangs(t, w) ==
  \E v \in {w} :
    /\ p' = v.p
    /\ ctx' = v.ctx
    /\ sig' = v.sig \ {t}
    /\ pc' = [pc EXCEPT ![t] = Hung]
    /\ last' = Event(t, "hang", 0, 0, 0, FALSE)
    /\ Remembered(v.p, uv, yorder, deep)
    /\ unfit' = Unfit(v)

\* the lowest worker not yet created
NextWorker ==
  IF \E x \in Workers : pc[x].at = "unborn"
    THEN CHOOSE x \in Workers :
           /\ pc[x].at = "unborn"
           /\ \A y \in Workers : pc[y].at = "unborn" => x <= y
    ELSE 0

\* nthm_open by thread t, where at most cap workers are ever created
nthm_open(t, cap) ==
  /\ Running(t)
  /\ LET w1 == _nthm_current_or_new_context(Entered(t), t)
         d  == w1.ctx[t]
         s  == NextWorker
     IN  IF Entered(t).err # 0
           THEN Returns(t, Entered(t), "open", 0, 0, FALSE)
         ELSE IF w1.p[d].yielded
           THEN Returns(t, IER(w1, THE_IER(28)), "open", 0, 0, FALSE)
         ELSE IF Endless(w1, d) THEN Hangs(t, w1)
         ELSE IF _nthm_heritably_killed_or_yielded(w1, d)
           THEN Returns(t, IER(w1, NTHM_KILLED), "open", 0, 0, FALSE)
         ELSE /\ s # 0
              /\ s <= cap
              /\ LET r == _nthm_tethered([w1 EXCEPT !.p[s] = NewPipe(FALSE)],
                                         s, d)
                 IN  /\ p' = r.w.p
                     /\ ctx' = [r.w.ctx EXCEPT ![s] = s]
                     /\ sig' = r.w.sig
                     /\ pc' = [pc EXCEPT ![s] = User]
                     /\ last' = Event(t, "open", s, 0, r.w.err, FALSE)
                     /\ Remembered(r.w.p, uv, yorder, deep)
                     /\ unfit' = Unfit(r.w)

\* the user function of worker t returns v and its manager yields
_nthm_manager(t, v) ==
  /\ t \in Workers
  /\ pc[t].at = "user"
  /\ last' = Event(t, "yield", t, v, 0, FALSE)
  /\ IF ~ p[t].valid
       THEN /\ pc' = [pc EXCEPT ![t] = Done]
            /\ UNCHANGED <<p, ctx, sig>>
            /\ unfit' = {}
       ELSE \E r \in {_nthm_vacate_scopes(
                          [World EXCEPT !.p[t].result = v], t, t)} :
            \E w2 \in {IF r.hung THEN r.w ELSE yield(r.w, t, t)} :
              /\ p' = w2.p
              /\ unfit' = Unfit(w2)
              /\ ctx' = [w2.ctx EXCEPT ![t] = 0]
              /\ sig' = w2.sig
              /\ pc' = [pc EXCEPT ![t] = IF r.hung THEN Hung ELSE Done]
  /\ Remembered(p',
                [uv EXCEPT ![t] = v],
                IF p'[t].yielded /\ ~ p[t].yielded
                  THEN Append(yorder, t) ELSE yorder,
                IF /\ InFinishers(p', t)
                   /\ p[t].depth < _nthm_scope_level(World, p[t].reader)
                  THEN deep \cup {t} ELSE deep)

\* the status of s passes to an error channel that holds nothing yet
StatusTaken(w, s) ==
  IF w.err = 0 /\ w.p[s].status # 0
    THEN [w EXCEPT !.err = w.p[s].status, !.p[s].status = 0]
    ELSE w

\* a tethered read that brings nothing back
read_forgets_result(t, w, s, waited) ==
  LET r == _nthm_killable(StatusTaken(w, s), s, t)
  IN  Returns(t, r.w, "read", s, 0, waited)

\* the part of a tethered read that follows the wait for s
tethered_read_done(t, w, s, waited) ==
  LET w1 == StatusTaken(w, s)
      result == IF w1.p[s].yielded THEN w1.p[s].result ELSE 0
      r == _nthm_killable(w1, s, t)
  IN  Returns(t, r.w, "read", s, IF r.ok THEN result ELSE 0, waited)

\* the part of an untethered read that follows the wait for s
untethered_read_done(t, w, s, waited) ==
  LET w1 == StatusTaken(w, s)
      result == w1.p[s].result
      w2 == IF w1.p[s].yielded THEN w1
            ELSE IER([w1 EXCEPT !.p[s].yielded = TRUE], THE_IER(241))
      r == _nthm_killable(w2, s, t)
  IN  Returns(t, r.w, "read", s, IF r.ok THEN result ELSE 0, waited)

_nthm_untethered_read(t, s) ==
  IF p[s].reader # 0
    THEN LET w1 == IER(Entered(t), NTHM_NOTDRN)
             w2 == IF w1.p[s].yielded THEN w1
                   ELSE IER([w1 EXCEPT !.p[s].yielded = TRUE], THE_IER(241))
             r == _nthm_killable(w2, s, t)
         IN  Returns(t, r.w, "read", s, 0, FALSE)
  ELSE IF p[s].yielded THEN untethered_read_done(t, Entered(t), s, FALSE)
  ELSE /\ \A u \in Threads : ~ (pc[u].at = "uread_wait" /\ pc[u].s = s)
       /\ Blocks(t, Entered(t), "uread_wait", s)

_nthm_tethered_read(t, w, s) ==
  IF w.p[s].yielded \/ w.p[w.ctx[t]].killed
    THEN tethered_read_done(t, w, s, FALSE)
    ELSE Blocks(t, w, "read_wait", s)

nthm_read(t, s) ==
  /\ Running(t)
  /\ p[s].valid
  /\ s # ctx[t]
  /\ IF ctx[t] = 0 THEN _nthm_untethered_read(t, s)
     ELSE LET r == _nthm_tethered(Entered(t), s, ctx[t])
          IN  IF r.ok THEN _nthm_tethered_read(t, r.w, s)
              ELSE Returns(t, r.w, "read", s, 0, FALSE)

\* a thread blocked in a read is woken by a signal
read_resumed(t) ==
  /\ t \in sig
  /\ pc[t].at \in {"read_wait", "uread_wait"}
  /\ LET s == pc[t].s
         w == [Entered(t) EXCEPT !.wt[t] = 0]
     IN  IF ~ p[s].valid THEN Blocks(t, w, pc[t].at, s)
         ELSE IF pc[t].at = "uread_wait"
           THEN untethered_read_done(t, w, s, TRUE)
         ELSE IF p[s].yielded \/ p[ctx[t]].killed
           THEN tethered_read_done(t, w, s, TRUE)
         ELSE Blocks(t, w, "read_wait", s)

\* a dequeue that takes the last finisher instead of the first
dequeued_from_tail(w, d) ==
  LET f == Head(w.p[d].scope).finishers
  IN  [w |-> [w EXCEPT !.p[d].scope[1].finishers = SubSeq(f, 1, Len(f) - 1),
                       !.p[f[Len(f)]].reader = 0],
       s |-> f[Len(f)]]

\* take the first finisher s of the top frame of d and free its list entries
_nthm_dequeued(w, d) ==
  LET f == Head(w.p[d].scope).finishers
  IN  [w |-> [w EXCEPT !.p[d].scope[1].finishers = Tail(f),
                       !.p[f[1]].reader = 0],
       s |-> f[1]]

\* a loop of nthm_select that does not wait for the blockers
selecting_without_waiting(t, w, waited) ==
  LET d == w.ctx[t]
      e == Head(w.p[d].scope)
  IN  IF w.p[d].killed
        THEN Returns(t, IER(w, NTHM_KILLED), "select", 0, 0, waited)
      ELSE IF e.finishers # <<>>
        THEN Returns(t, _nthm_dequeued(w, d).w, "select",
                     _nthm_dequeued(w, d).s, 0, waited)
      ELSE Returns(t, w, "select", 0, 0, waited)

\* a loop of nthm_select that looks at the finishers before the kill
selecting_finishers_first(t, w, waited) ==
  LET d == w.ctx[t]
      e == Head(w.p[d].scope)
  IN  IF e.finishers # <<>>
        THEN Returns(t, _nthm_dequeued(w, d).w, "select",
                     _nthm_dequeued(w, d).s, 0, waited)
      ELSE IF w.p[d].killed
        THEN Returns(t, IER(w, NTHM_KILLED), "select", 0, 0, waited)
      ELSE IF e.blockers # <<>> THEN Blocks(t, w, "select_wait", 0)
      ELSE Returns(t, w, "select", 0, 0, waited)

\* the loop of nthm_select, entered or entered again after a wait
selecting(t, w, waited) ==
  LET d == w.ctx[t]
      e == Head(w.p[d].scope)
  IN  IF w.p[d].killed
        THEN Returns(t, IER(w, NTHM_KILLED), "select", 0, 0, waited)
      ELSE IF e.finishers # <<>>
        THEN Returns(t, _nthm_dequeued(w, d).w, "select",
                     _nthm_dequeued(w, d).s, 0, waited)
      ELSE IF e.blockers # <<>> THEN Blocks(t, w, "select_wait", 0)
      ELSE Returns(t, w, "select", 0, 0, waited)

nthm_select(t) ==
  /\ Running(t)
  /\ IF ctx[t] = 0 THEN Returns(t, Entered(t), "select", 0, 0, FALSE)
     ELSE selecting(t, Entered(t), FALSE)

select_resumed(t) ==
  /\ t \in sig
  /\ pc[t].at = "select_wait"
  /\ selecting(t, [Entered(t) EXCEPT !.wt[t] = 0], TRUE)

nthm_kill(t, s) ==
  /\ Running(t)
  /\ p[s].valid
  /\ s # ctx[t]
  /\ LET r == _nthm_killable(Entered(t), s, t)
     IN  Returns(t, IF r.ok THEN r.w ELSE IER(r.w, THE_IER(60)),
                 "kill", s, 0, FALSE)

\* a kill_all that also kills the workers in the root pool
kill_all_and_pool(t) ==
  /\ Running(t)
  /\ ctx[t] # 0
  /\ LET d  == ctx[t]
         w0 == [Entered(t) EXCEPT
                  !.p = [s \in DOMAIN @ |->
                           IF @[s].valid /\ @[s].pool /\ ~ @[s].placeholder
                             THEN [@[s] EXCEPT !.killed = TRUE] ELSE @[s]]]
         r  == _nthm_descendants_killed(
                 [w0 EXCEPT !.p[d].placeholder = FALSE], d, t)
     IN  Returns(t, [r.w EXCEPT !.p[d].placeholder = p[d].placeholder],
                 "kill_all", 0, 0, FALSE)

\* the placeholder flag is cleared while the descendants are killed
nthm_kill_all(t) ==
  /\ Running(t)
  /\ IF ctx[t] = 0 THEN Returns(t, Entered(t), "kill_all", 0, 0, FALSE)
     ELSE LET d == ctx[t]
              r == _nthm_descendants_killed(
                     [Entered(t) EXCEPT !.p[d].placeholder = FALSE], d, t)
          IN  IF ~ p[d].placeholder
                THEN Returns(t, IF r.ok THEN r.w ELSE IER(r.w, THE_IER(61)),
                             "kill_all", 0, 0, FALSE)
              ELSE IF ~ r.ok
                THEN Returns(t, IER(r.w, THE_IER(62)), "kill_all", 0, 0, FALSE)
              ELSE Returns(t, _nthm_unpool(
                                [r.w EXCEPT !.p[d].placeholder = TRUE], d, t),
                           "kill_all", 0, 0, FALSE)

nthm_untether(t, s) ==
  /\ Running(t)
  /\ p[s].valid
  /\ s # ctx[t]
  /\ LET r == _nthm_untethered(Entered(t), s, t)
     IN  Returns(t, IF r.ok THEN r.w ELSE IER(r.w, THE_IER(66)),
                 "untether", s, 0, FALSE)

nthm_tether(t, s) ==
  /\ Running(t)
  /\ p[s].valid
  /\ s # ctx[t]
  /\ LET w1 == _nthm_current_or_new_context(Entered(t), t)
         d  == w1.ctx[t]
     IN  IF w1.p[d].yielded
           THEN Returns(t, IER(w1, THE_IER(68)), "tether", s, 0, FALSE)
         ELSE IF Endless(w1, d) THEN Hangs(t, w1)
         ELSE IF _nthm_heritably_killed_or_yielded(w1, d)
           THEN Returns(t, IER(w1, NTHM_KILLED), "tether", s, 0, FALSE)
         ELSE LET r == _nthm_tethered(w1, s, d)
              IN  Returns(t, IF r.ok THEN r.w ELSE IER(r.w, THE_IER(69)),
                          "tether", s, 0, FALSE)

_nthm_scope_entered(w, d) ==
  [w EXCEPT !.p[d].scope = <<NoDescendants>> \o @]

nthm_enter_scope(t) ==
  /\ Running(t)
  /\ LET w1 == _nthm_current_or_new_context(Entered(t), t)
         d  == w1.ctx[t]
     IN  IF w1.p[d].yielded
           THEN Returns(t, IER(w1, THE_IER(72)), "enter", 0, 0, FALSE)
         ELSE IF Endless(w1, d) THEN Hangs(t, w1)
         ELSE IF _nthm_heritably_killed_or_yielded(w1, d)
           THEN Returns(t, IER(w1, NTHM_KILLED), "enter", 0, 0, FALSE)
         ELSE /\ _nthm_scope_level(w1, d) < MaxLevel
              /\ Returns(t, _nthm_scope_entered(w1, d), "enter", 0, 1, FALSE)

nthm_exit_scope(t) ==
  /\ Running(t)
  /\ IF ctx[t] = 0
       THEN Returns(t, IER(Entered(t), NTHM_UNDFLO), "exit", 0, 0, FALSE)
     ELSE IF Len(p[ctx[t]].scope) = 1
       THEN Returns(t, IER(Entered(t), NTHM_UNDFLO), "exit", 0, 0, FALSE)
     ELSE LET d  == ctx[t]
              w1 == _nthm_descendants_untethered(Entered(t), d, t)
              w2 == _nthm_scope_exited(w1, d)
          IN  Returns(t, _nthm_unpool(w2, d, t), "exit", 0, 0, FALSE)

\* the drain of s adds one to the counter of the current frame of s
nthm_truncate(t, s) ==
  /\ Running(t)
  /\ p[s].valid
  /\ IF ctx[t] = 0 THEN Returns(t, Entered(t), "truncate", s, 0, FALSE)
     ELSE IF ~ _nthm_drained_by(Entered(t), s, ctx[t])
       THEN Returns(t, IER(Entered(t), NTHM_NOTDRN), "truncate", s, 0, FALSE)
     ELSE Returns(t, [Entered(t) EXCEPT !.p[s].scope[1].truncation = Bumped(@)],
                  "truncate", s, 0, FALSE)

\* thread t adds one to the counter of the current frame of its context
nthm_truncate_all(t) ==
  /\ Running(t)
  /\ IF ctx[t] = 0 THEN Returns(t, Entered(t), "truncate_all", 0, 0, FALSE)
     ELSE Returns(t, [Entered(t) EXCEPT
                        !.p[ctx[t]].scope[1].truncation = Bumped(@)],
                  "truncate_all", 0, 0, FALSE)

\* the counter of the current frame of the caller if it is not zero, and
\* what its tether chain tells otherwise
nthm_truncated(t) ==
  /\ Running(t)
  /\ IF ctx[t] = 0
       THEN Returns(t, IER(Entered(t), NTHM_UNMANT), "truncated", 0, 0, FALSE)
     ELSE LET source == ctx[t]
              c == Head(p[source].scope).truncation
              r == _nthm_heritably_truncated(Entered(t), source)
          IN  IF c # 0 THEN Returns(t, Entered(t), "truncated", source, c, FALSE)
              ELSE Returns(t, r.w, "truncated", source, r.h, FALSE)

\* whether nthm_select would wait
nthm_blocked(t) ==
  /\ Running(t)
  /\ IF ctx[t] = 0 THEN Returns(t, Entered(t), "blocked", 0, 0, FALSE)
     ELSE LET e == Head(p[ctx[t]].scope)
          IN  Returns(t, Entered(t), "blocked", 0,
                      IF e.finishers # <<>> THEN 0
                      ELSE IF e.blockers # <<>> THEN 1 ELSE 0, FALSE)

\* the threads that make each kind of call
Openers == {Main} \cup Workers
Readers == {Main, 1, Other}
Selectors == {Main, 1}
Killers == {Main, Other}
Tetherers == {Main}
Scopers == {Main}

\* a change of the pipes that leaves the sync module and the tallies alone
Piped(A) == A /\ tally' = tally /\ chan' = chan /\ held' = held /\ UNCHANGED svars

\* a step that is not one of the flat pool: a call made as one step,
\* whatever locks it takes
Untallied(A) == Piped(A) /\ lk' = lk

Next ==
  \/ \E t \in Openers : Untallied(nthm_open(t, MaxOpen))
  \/ \E t \in Workers, v \in Values : Untallied(_nthm_manager(t, v))
  \/ \E t \in Readers, s \in Workers : Untallied(nthm_read(t, s))
  \/ \E t \in Threads : Untallied(read_resumed(t))
  \/ \E t \in Selectors : Untallied(nthm_select(t))
  \/ \E t \in Threads : Untallied(select_resumed(t))
  \/ \E t \in Killers, s \in Workers : Untallied(nthm_kill(t, s))
  \/ \E t \in Tetherers, s \in Workers : Untallied(nthm_untether(t, s))
  \/ \E t \in Tetherers, s \in Workers : Untallied(nthm_tether(t, s))
  \/ \E t \in Scopers : Untallied(nthm_enter_scope(t))
  \/ \E t \in Scopers : Untallied(nthm_exit_scope(t))

Spec == Init /\ [][Next]_vars

----------------------------------------------------------------------------
\* a step in which thread t comes back from a call of the kind op
Came(op) == last'.op = op /\ vars' # vars

\* C1: when nthm_read by the drain of a worker that was not killed comes
\* back, it brings the value the worker's user function returned if the
\* worker has yielded, and it comes back before the worker has yielded only
\* if the drain was killed
C1_ReadBringsValue ==
  [][Came("read") /\ _nthm_drained_by(World, last'.s, ctx[last'.t])
                  /\ ~ p[last'.s].killed
       => IF p[last'.s].yielded
            THEN last'.val = uv[last'.s] /\ last'.val \in Values
            ELSE p[ctx[last'.t]].killed]_vars

\* a read that began before the worker yielded has brought its value
C1_Witness ==
  /\ last.op = "read"
  /\ last.waited
  /\ last.err = 0
  /\ last.val \in Values
  /\ pc[last.s].at = "done"

----------------------------------------------------------------------------
(* The flat pool of test/flatpool.c: the main thread opens workers and     *)
(* calls nthm_select and then nthm_read of the pipe selected, over and     *)
(* over, while the workers finish in any order.                            *)

\* the pipes nthm_select has handed over and nthm_read has not yet taken
Pending ==
  {s \in Workers : p[s].valid /\ p[s].reader = 0 /\ ~ p[s].pool}

\* a step of the flat pool, counted if nthm_select returns a pipe in it
Tallied(A) ==
  /\ A
  /\ chan' = chan /\ held' = held /\ lk' = lk
  /\ UNCHANGED svars
  /\ tally' = IF last'.op = "select" /\ last'.s # 0
                THEN [tally EXCEPT ![last'.s] = @ + 1]
                ELSE tally

NextFlat ==
  \/ Pending = {} /\ Untallied(nthm_open(Main, MaxWorkers))
  \/ Pending = {} /\ Tallied(nthm_select(Main))
  \/ Tallied(select_resumed(Main))
  \/ \E s \in Pending : Untallied(nthm_read(Main, s))
  \/ \E t \in Workers, v \in Values : Untallied(_nthm_manager(t, v))

SpecFlat == Init /\ [][NextFlat]_vars

\* C2: in the flat pool nthm_select returns no worker twice, and when it
\* returns null without an error every worker opened has been returned once
C2_EachWorkerOnce ==
  /\ \A s \in Workers : tally[s] <= 1
  /\ (last.op = "select" /\ last.s = 0 /\ last.err = 0)
       => \A s \in Workers : pc[s].at # "unborn" => tally[s] = 1

\* nthm_select returns null after all the workers were opened and returned
C2_Witness ==
  /\ last.op = "select"
  /\ last.s = 0
  /\ last.err = 0
  /\ \A s \in Workers : tally[s] = 1 /\ pc[s].at = "done" /\ ~ p[s].valid

----------------------------------------------------------------------------
\* the place of x in the sequence q, 0 if it is not there
Place(q, x) == IF Member(q, x) THEN CHOOSE i \in 1..Len(q) : q[i] = x ELSE 0

\* the finishers in the top frame of the context of the thread that has
\* just come back from a call
TopFinishers == Head(p[ctx[last'.t]].scope).finishers

----------------------------------------------------------------------------
\* C4: nthm_select returns only pipes tethered at the caller's current
\* scope level, and a worker that has yielded to a drain that is not killed
\* waits in the finishers of the frame it was tethered in, which is the top
\* frame, where nthm_select looks, when the drain is back at that level
C4_ScopeIsolation ==
  [][/\ (Came("select") /\ last'.s # 0)
          => /\ p[last'.s].reader = ctx[last'.t]
             /\ p[last'.s].depth = _nthm_scope_level(World, ctx[last'.t])
     /\ \A s \in Workers :
          (/\ p'[s].valid
           /\ p'[s].reader # 0
           /\ Member(yorder', s)
           /\ ~ p'[s].killed)
            => LET d == p'[s].reader
                   k == Len(p'[d].scope) - 1 - p'[s].depth + 1
               IN  /\ k \in 1..Len(p'[d].scope)
                   /\ Member(p'[d].scope[k].finishers, s)]_vars

\* nthm_select has returned a worker that yielded while its drain was in an
\* inner scope
C4_Witness ==
  /\ last.op = "select"
  /\ last.s \in deep
  /\ last.err = 0

\* C5 as stated, in the form a finite run decides: a drain blocked in
\* nthm_read whose source has finished, or blocked in nthm_select with a
\* tethered worker of the current scope finished, or blocked in either and
\* killed, has a wake-up on the way
C5_NoLostWakeup ==
  \A t \in Threads :
     /\ pc[t].at = "read_wait"
          => ((pc[pc[t].s].at = "done" \/ p[ctx[t]].killed) => t \in sig)
     /\ pc[t].at = "select_wait"
          => ((\/ p[ctx[t]].killed
               \/ \E s \in Workers :
                    /\ pc[s].at = "done"
                    /\ p[s].valid
                    /\ p[s].reader = ctx[t]
                    /\ p[s].depth = _nthm_scope_level(World, ctx[t]))
              => t \in sig)

\* C6 as stated: a tethered read whose drain is killed while it is blocked,
\* the source not having yielded, returns null with KILLED
C6_KilledReadReportsKilled ==
  [][(/\ Came("read")
      /\ pc[last'.t].at = "read_wait"
      /\ p[ctx[last'.t]].killed
      /\ ~ p[last'.s].yielded)
       => (last'.val = 0 /\ last'.err = NTHM_KILLED)]_vars

\* C7: nthm_select called or woken when the drain's killed flag is set
\* returns null with KILLED
C7_KilledSelect ==
  [][(Came("select") /\ ctx[last'.t] # 0 /\ p[ctx[last'.t]].killed)
       => (last'.s = 0 /\ last'.err = NTHM_KILLED)]_vars

\* nthm_select of a killed drain has returned null with KILLED although a
\* finisher is queued in the current frame
C7_Witness ==
  /\ last.op = "select"
  /\ last.s = 0
  /\ last.err = NTHM_KILLED
  /\ p[ctx[last.t]].killed
  /\ Head(p[ctx[last.t]].scope).finishers # <<>>

\* the drains above pipe c along at most n tethers
RECURSIVE Ancestors(_, _)
Ancestors(c, n) ==
  IF n = 0 \/ p[c].reader = 0 THEN {}
  ELSE {p[c].reader} \cup Ancestors(p[c].reader, n - 1)

\* C8 as stated: nthm_open from a context that is killed or has a killed or
\* yielded drain above it returns null with KILLED and makes no pipe or thread
C8_KilledOpenRefused ==
  [][(/\ Came("open")
      /\ ctx[last'.t] # 0
      /\ \/ p[ctx[last'.t]].killed
         \/ \E a \in Ancestors(ctx[last'.t], Cardinality(Pipes)) :
               p[a].killed \/ p[a].yielded)
       => /\ last'.s = 0
          /\ last'.err = NTHM_KILLED
          /\ pc' = pc
          /\ \A x \in Pipes : p'[x].valid = p[x].valid]_vars

\* C9: nthm_read of a pipe tethered to a drain other than the caller's
\* context returns null with NOT-DRAIN
C9_ReadNotDrain ==
  [][(/\ Came("read")
      /\ p[last'.s].reader # 0
      /\ p[last'.s].reader # ctx[last'.t])
       => (last'.val = 0 /\ last'.err = NTHM_NOTDRN)]_vars

\* an unmanaged thread has been refused a pipe that is tethered to a drain
C9_Witness ==
  /\ last.op = "read"
  /\ last.t = Other
  /\ ctx[Other] = 0
  /\ last.val = 0
  /\ last.err = NTHM_NOTDRN
  /\ p[last.s].reader # 0

----------------------------------------------------------------------------
\* the pipes in a sequence
Range(q) == {q[i] : i \in 1..Len(q)}

\* the workers tethered in the current scope of pipe d
Tethered(d) ==
  Range(Head(p[d].scope).blockers) \cup Range(Head(p[d].scope).finishers)

\* the scope level of thread t, none for a thread with no context
LevelOf(t) == IF ctx[t] = 0 THEN 0 ELSE Len(p[ctx[t]].scope) - 1

\* frames holding no descendants
Childless(fs) == \A i \in 1..Len(fs) : fs[i].blockers = <<>> /\ fs[i].finishers = <<>>

\* C15 as stated: nthm_exit_scope called inside an entered scope with workers
\* tethered in it leaves each of them with no reader, in the root pool and
\* killed no more than it was, takes the drain one level down, and leaves the
\* blockers and finishers of the enclosing frame as they were
C15_ExitScopeUntethers ==
  [][\A t \in Scopers :
       (/\ nthm_exit_scope(t)
        /\ ctx[t] # 0
        /\ Len(p[ctx[t]].scope) > 1
        /\ Tethered(ctx[t]) # {})
         => /\ \A s \in Tethered(ctx[t]) :
                 /\ p'[s].valid
                 /\ p'[s].reader = 0
                 /\ p'[s].pool
                 /\ p'[s].killed = p[s].killed
            /\ LevelOf(t)' = LevelOf(t) - 1
            /\ p'[ctx[t]].valid => p'[ctx[t]].scope = Tail(p[ctx[t]].scope)
            /\ ~ p'[ctx[t]].valid => Childless(Tail(p[ctx[t]].scope))]_vars

----------------------------------------------------------------------------
\* C17: when nthm_read by an unmanaged thread that has no context comes back
\* from a pipe that has no reader, the worker has yielded, the value is the
\* one the worker's user function returned, the pipe is retired and the
\* thread still has no context
C17_UntetheredRead ==
  [][(/\ Came("read")
      /\ last'.t \in Unmanaged
      /\ ctx[last'.t] = 0
      /\ p[last'.s].valid
      /\ p[last'.s].reader = 0)
       => /\ pc[last'.s].at = "done"
          /\ p[last'.s].yielded
          /\ last'.val = uv[last'.s]
          /\ last'.val \in Values
          /\ ~ p'[last'.s].valid
          /\ ctx'[last'.t] = 0]_vars

----------------------------------------------------------------------------
(* Truncation: the main thread and worker 1 open workers, enter and leave  *)
(* scopes and truncate their workers, one by one or all at once; the main  *)
(* thread kills workers, a second unmanaged thread reads their pipes, and  *)
(* the workers ask whether they are truncated.                             *)

Truncators == {Main, 1}

NextTrunc ==
  \/ \E t \in Truncators : Untallied(nthm_open(t, MaxOpen))
  \/ \E t \in Truncators : Untallied(nthm_enter_scope(t))
  \/ \E t \in Truncators : Untallied(nthm_exit_scope(t))
  \/ \E t \in Truncators, s \in Workers : Untallied(nthm_truncate(t, s))
  \/ \E t \in Truncators : Untallied(nthm_truncate_all(t))
  \/ \E t \in Workers : Untallied(nthm_truncated(t))
  \/ \E s \in Workers : Untallied(nthm_kill(Main, s))
  \/ \E s \in Workers : Untallied(nthm_read(Other, s))

SpecTrunc == Init /\ [][NextTrunc]_vars

\* the pipes on the tether chain that starts at s, at most n drains long
RECURSIVE TetherChain(_, _)
TetherChain(s, n) ==
  {s} \cup (IF p[s].reader = 0 \/ n = 0 THEN {}
            ELSE TetherChain(p[s].reader, n - 1))

\* the frame of its drain that holds source x has a counter that is not zero
TruncatedByOwner(x) ==
  /\ p[x].reader # 0
  /\ \E i \in 1..Len(p[p[x].reader].scope) :
       LET e == p[p[x].reader].scope[i]
       IN  /\ Member(e.blockers, x) \/ Member(e.finishers, x)
           /\ e.truncation # 0

\* C18: nthm_truncated called by a worker returns a value other than zero
\* exactly when the worker is killed or has yielded, or the counter of its
\* own current frame is not zero, or on some link of its tether chain the
\* frame of the drain that holds the source has a counter that is not zero
C18_TruncatedExactly ==
  [][(Came("truncated") /\ last'.t \in Workers /\ last'.s # 0)
       => (last'.val # 0 <=>
             \/ p[last'.s].killed
             \/ p[last'.s].yielded
             \/ Head(p[last'.s].scope).truncation # 0
             \/ \E x \in TetherChain(last'.s, Cardinality(Pipes)) :
                  TruncatedByOwner(x))]_vars

\* a worker tethered at the outer level has found itself not truncated while
\* the counter of its drain's inner frame was not zero
C18_Witness ==
  /\ last.op = "truncated"
  /\ last.val = 0
  /\ last.err = 0
  /\ p[last.s].reader # 0
  /\ Len(p[p[last.s].reader].scope) = 2
  /\ p[last.s].depth = 0
  /\ p[p[last.s].reader].scope[1].truncation # 0
  /\ p[p[last.s].reader].scope[2].truncation = 0

\* the greatest value of the truncation counter
MaxTruncation == 2 ^ UnsignedBits - 1

\* C19: no call of nthm_truncate or nthm_truncate_all makes the counter of
\* any frame less than it was, and a counter at its greatest value stays
\* there
C19_CounterSaturates ==
  [][\A t \in Truncators :
       (nthm_truncate_all(t) \/ \E s \in Workers : nthm_truncate(t, s))
         => \A d \in Pipes : \A i \in 1..Len(p[d].scope) :
              /\ Len(p'[d].scope) = Len(p[d].scope)
              /\ p'[d].scope[i].truncation >= p[d].scope[i].truncation
              /\ p[d].scope[i].truncation = MaxTruncation
                   => p'[d].scope[i].truncation = MaxTruncation
              /\ p[d].scope[i].truncation # 0
                   => p'[d].scope[i].truncation # 0]_vars

\* a worker has been truncated by both calls until its counter and that of
\* its drain are at the greatest value
C19_Witness ==
  \E d \in Pipes, s \in Workers :
    /\ p[s].valid /\ p[d].valid /\ p[s].reader = d
    /\ Head(p[s].scope).truncation = MaxTruncation
    /\ Head(p[d].scope).truncation = MaxTruncation

----------------------------------------------------------------------------
(* Polling: the main thread and worker 1 open workers, ask whether         *)
(* nthm_select would block and call it, the workers yield, and the main    *)
(* thread kills workers.                                                   *)

Pollers == {Main, 1}

NextPoll ==
  \/ \E t \in Pollers : Untallied(nthm_open(t, MaxOpen))
  \/ \E t \in Workers, v \in Values : Untallied(_nthm_manager(t, v))
  \/ \E t \in Pollers : Untallied(nthm_blocked(t))
  \/ \E t \in Pollers : Untallied(nthm_select(t))
  \/ \E t \in Threads : Untallied(select_resumed(t))
  \/ \E s \in Workers : Untallied(nthm_kill(Main, s))

SpecPoll == Init /\ [][NextPoll]_vars

\* a call of nthm_select by thread t in this state would wait
SelectWouldBlock(t) == ENABLED (nthm_select(t) /\ pc'[t].at = "select_wait")

\* C20 as stated: nthm_blocked returns a value other than zero exactly when
\* nthm_select called by the same thread in the same state would block
C20_BlockedTellsSelect ==
  [][\A t \in Pollers :
       (Came("blocked") /\ last'.t = t)
         => (last'.val # 0 <=> SelectWouldBlock(t))]_vars

----------------------------------------------------------------------------
\* C22 as stated: no pipe has its killed flag set while it has a reader
C22_KilledHasNoReader ==
  \A s \in Pipes : (p[s].valid /\ p[s].killed) => p[s].reader = 0

\* C23 as stated: in every frame of every pipe, no blocker has yielded and
\* every finisher has
C23_ListsMatchYielded ==
  \A d \in Pipes : \A i \in 1..Len(p[d].scope) :
    /\ \A s \in Range(p[d].scope[i].blockers) : ~ p[s].yielded
    /\ \A s \in Range(p[d].scope[i].finishers) : p[s].yielded

\* how often s occurs in the sequence q
Occurrences(q, s) == Cardinality({k \in 1..Len(q) : q[k] = s})

\* the places in the lists of d where s is entered, each a frame and a list
Entries(d, s) ==
  {<<i, l>> \in (1..Len(p[d].scope)) \X {"blockers", "finishers"} :
     Member(p[d].scope[i][l], s)}

\* C24 as stated: every pipe that has a reader is entered exactly once in the
\* lists of that reader, in one frame, among its blockers or its finishers
C24_OneEntry ==
  \A s \in Pipes :
    (p[s].valid /\ p[s].reader # 0)
      => /\ p[p[s].reader].valid
         /\ Cardinality(Entries(p[s].reader, s)) = 1
         /\ \A e \in Entries(p[s].reader, s) :
              Occurrences(p[p[s].reader].scope[e[1]][e[2]], s) = 1

\* a drain in an inner scope has a running worker among the blockers of one
\* frame and a finished one among the finishers of the other
C24_Witness ==
  \E d \in Pipes, s, f \in Workers :
    /\ p[d].valid /\ Len(p[d].scope) = 2
    /\ p[s].valid /\ p[s].reader = d /\ ~ p[s].yielded
    /\ p[f].valid /\ p[f].reader = d /\ p[f].yielded
    /\ Entries(d, s) \in {{<<1, "blockers">>}, {<<2, "blockers">>}}
    /\ Entries(d, f) \in {{<<1, "finishers">>}, {<<2, "finishers">>}}
    /\ Entries(d, s) # {} /\ \A a \in Entries(d, s), b \in Entries(d, f) :
         a[1] # b[1]

----------------------------------------------------------------------------
(* Error channels: the main thread and worker 1 make every call of the API *)
(* with an error variable that holds zero or an error left by earlier user *)
(* code.                                                                   *)

Callers == {Main, 1}

\* the user code of thread t assigns e to its error variable between calls
user_assigns(t, e) ==
  /\ pc[t].at = "user"
  /\ chan[t] # e
  /\ chan' = [chan EXCEPT ![t] = e]
  /\ UNCHANGED <<pvars, tally, svars, held, lk>>

NextErr ==
  \/ \E t \in Callers, e \in {0, UserError} : user_assigns(t, e)
  \/ \E t \in Callers : Untallied(nthm_open(t, ErrOpen))
  \/ \E t \in Workers, v \in Values : Untallied(_nthm_manager(t, v))
  \/ \E t \in Callers, s \in Workers : Untallied(nthm_read(t, s))
  \/ \E t \in Threads : Untallied(read_resumed(t))
  \/ \E t \in Callers : Untallied(nthm_select(t))
  \/ \E t \in Threads : Untallied(select_resumed(t))
  \/ \E t \in Callers : Untallied(nthm_blocked(t))
  \/ \E t \in Callers, s \in Workers : Untallied(nthm_truncate(t, s))
  \/ \E t \in Callers : Untallied(nthm_truncate_all(t))
  \/ \E t \in Callers : Untallied(nthm_truncated(t))
  \/ \E t \in Callers, s \in Workers : Untallied(nthm_kill(t, s))
  \/ \E t \in Callers : Untallied(nthm_kill_all(t))
  \/ \E t \in Callers, s \in Workers : Untallied(nthm_untether(t, s))
  \/ \E t \in Callers, s \in Workers : Untallied(nthm_tether(t, s))
  \/ \E t \in Callers : Untallied(nthm_enter_scope(t))
  \/ \E t \in Callers : Untallied(nthm_exit_scope(t))

SpecErr == Init /\ [][NextErr]_vars

\* the names under which the calls of the API report their return
Calls ==
  {"open", "read", "select", "blocked", "truncate", "truncate_all",
   "truncated", "kill", "kill_all", "untether", "tether", "enter", "exit"}

\* C21: a call of the API entered with an error variable that is not zero
\* returns with the same value in it
C21_ErrorKept ==
  [][\A t \in Callers :
       (/\ chan[t] # 0
        /\ chan' = chan /\ held' = held /\ lk' = lk
        /\ last' # last
        /\ last'.op \in Calls
        /\ last'.t = t)
         => last'.err = chan[t]]_vars

\* a read that had to wait has come back with the error it was entered with
\* although the pipe it read held a status
C21_Witness ==
  /\ last.op = "read"
  /\ last.waited
  /\ last.err = UserError
  /\ chan[last.t] = UserError
  /\ last.val \in Values

----------------------------------------------------------------------------
(* Untethering: the main thread and worker 1 open workers, untether them,  *)
(* select, and kill all their descendants, the workers yield, and a second *)
(* unmanaged thread reads the workers' pipes.                              *)

Detachers == {Main, 1}

NextDetach ==
  \/ \E t \in Detachers : Untallied(nthm_open(t, MaxOpen))
  \/ \E t \in Workers, v \in Values : Untallied(_nthm_manager(t, v))
  \/ \E t \in Detachers, s \in Workers : Untallied(nthm_untether(t, s))
  \/ \E t \in Detachers : Untallied(nthm_select(t))
  \/ \E t \in Threads : Untallied(select_resumed(t))
  \/ \E t \in Detachers : Untallied(nthm_kill_all(t))
  \/ \E s \in Workers : Untallied(nthm_read(Other, s))
  \/ \E t \in Threads : Untallied(read_resumed(t))

SpecDetach == Init /\ [][NextDetach]_vars

\* the workers that have no reader and are not the context of thread t
Untethered(t) ==
  {s \in Workers : p[s].valid /\ p[s].reader = 0 /\ s # ctx[t]}

\* C16: a worker that its drain has untethered is not the pipe that a
\* nthm_select of the drain returns, and is not killed by the drain's
\* nthm_kill_all nor by the yield of the drain
C16_UntetheredLeftAlone ==
  [][/\ (Came("select") /\ last'.s # 0)
          => /\ ctx[last'.t] # 0
             /\ p[last'.s].reader = ctx[last'.t]
     /\ \A t \in Detachers :
          (nthm_kill_all(t) \/ \E v \in Values : _nthm_manager(t, v))
            => \A s \in Untethered(t) :
                 p'[s].valid /\ p'[s].killed = p[s].killed]_vars

\* the main thread has killed a worker while another that it had untethered
\* runs on, not killed and in the root pool
C16_Witness ==
  /\ \E s, k \in Workers :
       /\ p[s].valid /\ p[s].reader = 0 /\ p[s].pool
       /\ ~ p[s].killed /\ ~ p[s].yielded /\ pc[s].at = "user"
       /\ p[k].valid /\ p[k].reader = 0 /\ p[k].killed /\ ~ p[k].yielded
       /\ pc[Other].at = "user" /\ ~ \E x \in Workers : x # k /\ p[x].killed

----------------------------------------------------------------------------
(* The start handshake and the relay race of sync.c.  The main thread, a    *)
(* second unmanaged thread and the workers create threads with nthm_open   *)
(* or nthm_send, the main thread calls nthm_sync and at last exits, which  *)
(* runs _nthm_synchronize again.  A condition wait returns when the        *)
(* condition is signalled.                                                 *)

\* the threads a signal can wake from the place a: one of those waiting
\* there, or thread 0 if there is none
Waiters(a) ==
  IF \E t \in Threads : th[t].at = a /\ t \notin woken
    THEN {t \in Threads : th[t].at = a /\ t \notin woken}
    ELSE {0}

\* the process has not finished exiting
Alive == th[Main].at # "exited"

\* the lowest worker not yet created by pthread_create
NextThread ==
  IF \E x \in Workers : th[x].at = "unborn"
    THEN CHOOSE x \in Workers :
           /\ th[x].at = "unborn"
           /\ \A y \in Workers : th[y].at = "unborn" => x <= y
    ELSE 0

\* nthm_open or nthm_send by thread t up to pthread_create
spawning(t) ==
  /\ Alive
  /\ th[t].at = "user"
  /\ ~ sy.deadlocked
  /\ NextThread # 0
  /\ th' = [th EXCEPT ![NextThread] = At("created"),
                       ![t] = [At("started") EXCEPT !.f = NextThread]]
  /\ UNCHANGED <<sy, woken, joins, failed>>

\* the spawner t confirms that a thread has started
_nthm_started(t) ==
  /\ Alive
  /\ th[t].at = "started" \/ (th[t].at = "started_wait" /\ t \in woken)
  /\ IF sy.deadlocked \/ sy.starters > 0
       THEN /\ sy' = [sy EXCEPT !.starters =
                                   IF sy.deadlocked THEN @ ELSE @ - 1,
                                !.opened =
                                   IF sy.deadlocked THEN @
                                   ELSE @ \cup {th[t].f}]
            /\ th' = [th EXCEPT ![t] = At("user")]
       ELSE /\ sy' = sy
            /\ th' = [th EXCEPT ![t].at = "started_wait"]
  /\ woken' = woken \ {t}
  /\ UNCHANGED <<joins, failed>>

\* the new thread t counts itself among the runners
registered_as_runner(t) ==
  /\ Alive
  /\ th[t].at = "created"
  /\ IF sy.deadlocked
       THEN /\ sy' = sy
            /\ th' = [th EXCEPT ![t] = At("relay")]
       ELSE /\ sy' = [sy EXCEPT !.runners = @ + 1, !.starting = TRUE]
            /\ th' = [th EXCEPT ![t] = At("registering")]
  /\ UNCHANGED <<woken, joins, failed>>

\* a registration that wakes one waiting spawner instead of all of them
registered_signalling(t) ==
  /\ Alive
  /\ th[t].at = "registering"
  /\ sy' = [sy EXCEPT !.starters = @ + 1]
  /\ \E u \in Waiters("started_wait") :
       woken' = IF sy.starters = 0 THEN woken \cup ({u} \ {0}) ELSE woken
  /\ th' = [th EXCEPT ![t] = At("user")]
  /\ UNCHANGED <<joins, failed>>

\* the new thread t counts itself among the starters and tells the spawners
registered_as_starter(t) ==
  /\ Alive
  /\ th[t].at = "registering"
  /\ IF sy.deadlocked
       THEN /\ sy' = sy
            /\ woken' = woken
            /\ th' = [th EXCEPT ![t] = At("relay")]
       ELSE /\ sy' = [sy EXCEPT !.starters = @ + 1]
            /\ woken' = IF sy.starters = 0
                          THEN woken \cup
                               {u \in Threads : th[u].at = "started_wait"}
                          ELSE woken
            /\ th' = [th EXCEPT ![t] = At("user")]
  /\ UNCHANGED <<joins, failed>>

\* the user code of worker t returns and its manager has yielded
finishing(t) ==
  /\ Alive
  /\ t \in Workers
  /\ th[t].at = "user"
  /\ th' = [th EXCEPT ![t] = At("relay")]
  /\ UNCHANGED <<sy, woken, joins, failed>>

\* the finishing thread t takes the runner lock in the relay race
_nthm_relay_race(t) ==
  /\ Alive
  /\ th[t].at = "relay"
  /\ failed' = failed
  /\ joins' = joins
  /\ IF sy.deadlocked
       THEN /\ th' = [th EXCEPT ![t] = At("exited")]
            /\ UNCHANGED <<sy, woken>>
     ELSE IF sy.finishers > 0
       THEN \E u \in Waiters("finished_wait") :
              /\ sy' = [sy EXCEPT !.finishers = @ - 1]
              /\ woken' = woken \cup ({u} \ {0})
              /\ th' = [th EXCEPT ![t] = [At("joining") EXCEPT
                                            !.f = sy.finishing_thread]]
     ELSE IF sy.runners = 0
       THEN /\ sy' = [sy EXCEPT !.finishers = @ + 1, !.finishing_thread = t,
                                !.deadlocked = TRUE]
            /\ th' = [th EXCEPT ![t] = At("exited")]
            /\ woken' = woken
     ELSE \E u \in Waiters("sync_wait") :
            /\ sy' = [sy EXCEPT !.finishers = @ + 1, !.finishing_thread = t,
                                !.runners = @ - 1]
            /\ woken' = IF sy.runners = 1 THEN woken \cup ({u} \ {0})
                        ELSE woken
            /\ th' = [th EXCEPT ![t] = At("finished_wait")]

\* pthread_join of thread f returns to thread t, which goes on to the place
\* a if the join succeeds and to the place b if it fails: joining a thread
\* that was joined before is undefined, and either succeeds or fails
Joined(t, f, a, b) ==
  /\ f # 0
  /\ th[f].at = "exited"
  /\ woken' = woken
  /\ IF joins[f] = 0
       THEN /\ joins' = [joins EXCEPT ![f] = 1]
            /\ th' = [th EXCEPT ![t] = a]
            /\ UNCHANGED <<sy, failed>>
       ELSE \E ok \in BOOLEAN :
              IF ok
                THEN /\ joins' = [joins EXCEPT ![f] = 2]
                     /\ th' = [th EXCEPT ![t] = a]
                     /\ UNCHANGED <<sy, failed>>
                ELSE /\ joins' = joins
                     /\ failed' = TRUE
                     /\ sy' = [sy EXCEPT !.deadlocked = TRUE]
                     /\ th' = [th EXCEPT ![t] = b]

\* the thread t in the relay race has joined its predecessor
relay_joined(t) ==
  /\ Alive
  /\ th[t].at = "joining"
  /\ Joined(t, th[t].f, At("relay"), At("exited"))

\* the thread t that waited to be joined is signalled and terminates
relay_finished(t) ==
  /\ Alive
  /\ th[t].at = "finished_wait"
  /\ t \in woken
  /\ th' = [th EXCEPT ![t] = At("exited")]
  /\ woken' = woken \ {t}
  /\ UNCHANGED <<sy, joins, failed>>

\* where thread t is when _nthm_synchronize has returned
Synchronized(t) == IF th[t].x THEN At("exited") ELSE At("user")

\* the main thread calls nthm_sync, or exits if x, up to the wait
_nthm_synchronize(t, x) ==
  /\ Alive
  /\ th[t].at = "user"
  /\ UNCHANGED <<joins, failed>>
  /\ IF sy.deadlocked \/ ~ sy.starting
       THEN /\ th' = [th EXCEPT ![t] = IF x THEN At("exited") ELSE At("user")]
            /\ UNCHANGED <<sy, woken>>
     ELSE IF sy.runners > 0
       THEN /\ sy' = [sy EXCEPT !.starting = FALSE, !.before = sy.opened]
            /\ th' = [th EXCEPT ![t] = [At("sync_wait") EXCEPT !.x = x]]
            /\ woken' = woken \ {t}
     ELSE \E u \in Waiters("finished_wait") :
            /\ sy' = [sy EXCEPT !.starting = FALSE, !.before = sy.opened]
            /\ woken' = woken \cup ({u} \ {0})
            /\ th' = [th EXCEPT ![t] = [At("sync_join") EXCEPT !.x = x]]

\* the last runner has signalled the thread t that waits in _nthm_synchronize
synchronize_woken(t) ==
  /\ Alive
  /\ th[t].at = "sync_wait"
  /\ t \in woken
  /\ \E u \in Waiters("finished_wait") :
       /\ woken' = (woken \ {t}) \cup ({u} \ {0})
       /\ th' = [th EXCEPT ![t].at = "sync_join"]
  /\ UNCHANGED <<sy, joins, failed>>

\* _nthm_synchronize joins the last thread that finished
synchronize_joined(t) ==
  /\ Alive
  /\ th[t].at = "sync_join"
  /\ Joined(t, sy.finishing_thread, Synchronized(t), Synchronized(t))

NextSync ==
  \/ \E t \in Threads : spawning(t) /\ UNCHANGED pvars /\ tally' = tally /\ chan' = chan /\ held' = held /\ lk' = lk
  \/ \E t \in Threads : _nthm_started(t) /\ UNCHANGED pvars /\ tally' = tally /\ chan' = chan /\ held' = held /\ lk' = lk
  \/ \E t \in Workers : registered_as_runner(t) /\ UNCHANGED pvars /\ tally' = tally /\ chan' = chan /\ held' = held /\ lk' = lk
  \/ \E t \in Workers : registered_as_starter(t) /\ UNCHANGED pvars /\ tally' = tally /\ chan' = chan /\ held' = held /\ lk' = lk
  \/ \E t \in Workers : finishing(t) /\ UNCHANGED pvars /\ tally' = tally /\ chan' = chan /\ held' = held /\ lk' = lk
  \/ \E t \in Workers : _nthm_relay_race(t) /\ UNCHANGED pvars /\ tally' = tally /\ chan' = chan /\ held' = held /\ lk' = lk
  \/ \E t \in Workers : relay_joined(t) /\ UNCHANGED pvars /\ tally' = tally /\ chan' = chan /\ held' = held /\ lk' = lk
  \/ \E t \in Workers : relay_finished(t) /\ UNCHANGED pvars /\ tally' = tally /\ chan' = chan /\ held' = held /\ lk' = lk
  \/ \E x \in BOOLEAN : _nthm_synchronize(Main, x) /\ UNCHANGED pvars /\ tally' = tally /\ chan' = chan /\ held' = held /\ lk' = lk
  \/ synchronize_woken(Main) /\ UNCHANGED pvars /\ tally' = tally /\ chan' = chan /\ held' = held /\ lk' = lk
  \/ synchronize_joined(Main) /\ UNCHANGED pvars /\ tally' = tally /\ chan' = chan /\ held' = held /\ lk' = lk

SpecSync == Init /\ [][NextSync]_vars

\* C10: when the process has finished exiting and no pthread call has
\* failed, every thread the library created has terminated and been joined
C10_AllJoinedAtExit ==
  (th[Main].at = "exited" /\ ~ failed)
    => \A t \in Workers :
         th[t].at # "unborn" => (th[t].at = "exited" /\ joins[t] >= 1)

----------------------------------------------------------------------------
\* the user code of worker c has returned
Finished(c) == th[c].at \in {"relay", "joining", "finished_wait", "exited"}

\* C12 as stated: when nthm_sync returns without a pthread failure, every
\* worker whose nthm_open or nthm_send had returned before nthm_sync was
\* called has finished its user code; this covers the call that returns at
\* once because no thread has started since the last one
C12_SyncWaitsForOpened ==
  [][/\ (th[Main].at = "sync_join" /\ th'[Main].at = "user" /\ ~ failed')
          => \A c \in sy.before : Finished(c)
     /\ (th[Main].at = "user" /\ ~ sy.deadlocked /\ ~ sy.starting)
          => \A c \in sy.opened : Finished(c)]_vars

\* the new thread c has not yet counted itself among the runners, or has
\* not yet counted itself among the starters
Unregistered(c) == th[c].at \in {"created", "registering"}

\* C13 as stated: the thread created by a call of nthm_open or nthm_send
\* that has returned success has run _nthm_registered and is counted among
\* the runners
C13_OpenedIsRegistered ==
  \A c \in sy.opened : ~ Unregistered(c)

----------------------------------------------------------------------------
\* C29: a pipe is retired only when it is retirable: at the moment it is
\* retired it has no reader, no blockers, no finishers and only the sentinel
\* scope frame, and it is a placeholder or a worker both killed and yielded
C29_RetiredWhenRetirable == unfit = {}

----------------------------------------------------------------------------
\* C28: a pipe whose yielded flag is set has no descendants: its scope stack
\* holds only the sentinel frame, with no blockers and no finishers
C28_YieldedIsChildless ==
  \A s \in Pipes :
    (p[s].valid /\ p[s].yielded)
      => /\ Len(p[s].scope) = 1
         /\ p[s].scope[1].blockers = <<>>
         /\ p[s].scope[1].finishers = <<>>

----------------------------------------------------------------------------
\* C27: every pipe that is a member of the root pool is a placeholder or has
\* no reader
C27_PooledIsUntethered ==
  \A s \in Pipes :
    (p[s].valid /\ p[s].pool) => (p[s].placeholder \/ p[s].reader = 0)

\* a worker is in the root pool without a reader, while its sibling is
\* tethered to a placeholder that is in the root pool
C27_Witness ==
  \E s, u \in Workers :
    /\ p[s].valid /\ p[s].pool /\ p[s].reader = 0
    /\ p[u].valid /\ ~ p[u].pool /\ p[u].reader # 0
    /\ p[p[u].reader].valid /\ p[p[u].reader].pool

----------------------------------------------------------------------------
\* C35: the yielded flag of a pipe that is true stays true as long as the
\* pipe lives
C35_YieldedStays ==
  [][\A x \in Pipes :
       (p[x].valid /\ p[x].yielded /\ p'[x].valid) => p'[x].yielded]_vars

\* a pipe whose worker has yielded has been untethered by its drain and is
\* in the root pool
C35_Witness ==
  \E x \in Workers :
    /\ pc[x] = Done /\ p[x].valid /\ p[x].yielded /\ ~ p[x].killed
    /\ p[x].reader = 0 /\ p[x].pool

\* what nthm_truncated would return in the worker t
Answer(t) ==
  IF Head(p[t].scope).truncation # 0 THEN Head(p[t].scope).truncation
  ELSE _nthm_heritably_truncated(World, t).h

\* C34: a worker in which nthm_truncated returns nonzero because of a
\* truncation of it or of an ancestor still gets nonzero from it after a step
\* that changes no pipe but its own and leaves it tethered as it was, such as
\* its own entering or exiting of a scope
C34_TruncatedStays ==
  [][\A t \in Workers :
       (/\ Running(t) /\ ctx[t] = t
        /\ ~ p[t].killed /\ ~ p[t].yielded
        /\ Answer(t) # 0
        /\ pc'[t] = pc[t] /\ ctx'[t] = t
        /\ p'[t].valid /\ ~ p'[t].killed /\ ~ p'[t].yielded
        /\ p'[t].reader = p[t].reader /\ p'[t].depth = p[t].depth
        /\ \A x \in Pipes \ {t} : p'[x] = p[x])
         => Answer(t)' # 0]_vars

\* the frame i of the drain d, counted from the top, holds the entry of s
InFrame(d, i, s) ==
  \/ \E k \in 1..Len(p[d].scope[i].blockers) : p[d].scope[i].blockers[k] = s
  \/ \E k \in 1..Len(p[d].scope[i].finishers) : p[d].scope[i].finishers[k] = s

\* C33: the depth of a tethered pipe is the number of scope frames beneath
\* the frame of its drain whose blockers or finishers hold its entry, and
\* one frame of the drain does hold it
C33_DepthIsFrame ==
  \A s \in Pipes :
    (p[s].valid /\ p[s].reader # 0 /\ p[p[s].reader].valid) =>
      /\ \E i \in 1..Len(p[p[s].reader].scope) : InFrame(p[s].reader, i, s)
      /\ \A i \in 1..Len(p[p[s].reader].scope) :
           InFrame(p[s].reader, i, s) =>
             p[s].depth = Len(p[p[s].reader].scope) - i

\* a source tethered before its drain entered a scope has yielded while the
\* drain was in the scope, another was tethered in the scope
C33_Witness ==
  \E s, u \in Workers :
    /\ p[s].valid /\ p[s].reader # 0 /\ p[s].yielded /\ s \in deep
    /\ Len(p[p[s].reader].scope) = 2
    /\ p[s].depth = 0
    /\ InFrame(p[s].reader, 2, s)
    /\ p[u].valid /\ p[u].reader = p[s].reader /\ p[u].depth = 1
    /\ InFrame(p[s].reader, 1, u)

\* the pipes with an entry in a frame of the drain d
Kids(d) == {x \in Pipes : \E i \in 1..Len(p[d].scope) : InFrame(d, i, x)}

\* the thread t, not managed, has the placeholder d, which has entered no
\* scope, and the worker s is the one pipe tethered to d
LastOf(t, d, s) ==
  /\ d # 0 /\ ctx[t] = d
  /\ p[d].valid /\ p[d].placeholder
  /\ Len(p[d].scope) = 1
  /\ p[s].valid /\ p[s].reader = d
  /\ Kids(d) = {s}

\* C36: when a read, a kill or an untether takes the last worker off the
\* placeholder of a thread that is not managed, and the placeholder has
\* entered no scope, the placeholder is retired and out of the root pool, and
\* the context of its thread is null
C36_LastRemovalRetires ==
  [][\A t \in Unmanaged, d \in Pipes, s \in Workers :
       (/\ LastOf(t, d, s)
        /\ \/ nthm_read(t, s)
           \/ pc[t].s = s /\ read_resumed(t)
           \/ nthm_kill(t, s)
           \/ nthm_untether(t, s)
        /\ ~ p'[s].valid \/ p'[s].reader # d)
         => /\ ~ p'[d].valid
            /\ ~ p'[d].pool
            /\ ctx'[t] = 0]_vars

\* the last worker of a placeholder has just been read by the thread of the
\* placeholder, and the placeholder is gone
C36_Witness ==
  /\ last.op = "read" /\ last.t = Main /\ last.err = 0
  /\ ~ p[last.s].valid
  /\ ctx[Main] = 0
  /\ ~ p[Main].valid
  /\ \A x \in Workers : p[x].valid => p[x].reader # Main

\* The main thread and worker 1 open workers and read them, the main thread
\* enters and exits a scope and kills all the workers of its current scope,
\* and a second thread that is not managed reads pipes it does not drain
NextKillAll ==
  \/ \E t \in {Main, 1} : Untallied(nthm_open(t, MaxOpen))
  \/ \E t \in {Main, 1, Other}, s \in Workers : Untallied(nthm_read(t, s))
  \/ \E t \in Threads : Untallied(read_resumed(t))
  \/ \E t \in Workers : Untallied(_nthm_manager(t, 1))
  \/ Untallied(nthm_enter_scope(Main))
  \/ Untallied(nthm_exit_scope(Main))
  \/ Untallied(nthm_kill_all(Main))

SpecKillAll == Init /\ [][NextKillAll]_vars

\* C37: nthm_kill_all called in a thread that is not managed does not retire
\* the placeholder of the thread while a child of its current scope is left;
\* each of those children is killed and untethered, or retired, when the call
\* comes back, and the placeholder is then either a placeholder still or was
\* retired when it was retirable
C37_KillAllKeepsPlaceholder ==
  [][\A t \in Unmanaged :
       (/\ ctx[t] # 0
        /\ p[ctx[t]].valid /\ p[ctx[t]].placeholder
        /\ nthm_kill_all(t))
         => /\ ctx[t] \notin unfit'
            /\ p'[ctx[t]].valid => p'[ctx[t]].placeholder
            /\ \A s \in Pipes :
                 InFrame(ctx[t], 1, s) =>
                   \/ ~ p'[s].valid
                   \/ p'[s].killed /\ p'[s].reader = 0]_vars

\* the world after nthm_tether of the pipe s by the thread t in the world w
tethered_again(w, t, s) ==
  IF ~ w.p[s].valid THEN IER(w, THE_IER(67))
  ELSE LET w1 == _nthm_current_or_new_context(w, t)
           d  == w1.ctx[t]
       IN  IF w1.p[d].yielded THEN IER(w1, THE_IER(68))
           ELSE IF _nthm_heritably_killed_or_yielded(w1, d)
             THEN IER(w1, NTHM_KILLED)
           ELSE LET r == _nthm_tethered(w1, s, d)
                IN  IF r.ok THEN r.w ELSE IER(r.w, THE_IER(69))

\* the world after nthm_untether and then nthm_tether of the pipe s by the
\* thread t, called with an error channel that holds nothing
RoundTrip(t, s) ==
  LET u == _nthm_untethered(World, s, t)
  IN  tethered_again(IF u.ok THEN u.w ELSE IER(u.w, THE_IER(66)), t, s)

\* the thread t runs in a context that drains the pipe s at its current scope
\* level, so that its nthm_untether takes s off
Drains(t, s) ==
  /\ Running(t)
  /\ ctx[t] # 0
  /\ s # ctx[t]
  /\ _nthm_drained_by(World, s, ctx[t])
  /\ ~ Endless(World, ctx[t])

\* in the world w the pipe s has the reader and the depth it has now, is in
\* the blockers and the finishers of the same frames as now, and is not in
\* the root pool
Restored(w, t, s) ==
  /\ w.p[s].valid
  /\ w.ctx[t] = ctx[t]
  /\ w.p[s].reader = p[s].reader
  /\ w.p[s].depth = p[s].depth
  /\ ~ w.p[s].pool
  /\ Len(w.p[ctx[t]].scope) = Len(p[ctx[t]].scope)
  /\ \A i \in 1..Len(p[ctx[t]].scope) :
       /\ Member(w.p[ctx[t]].scope[i].blockers, s)
            <=> Member(p[ctx[t]].scope[i].blockers, s)
       /\ Member(w.p[ctx[t]].scope[i].finishers, s)
            <=> Member(p[ctx[t]].scope[i].finishers, s)

KilledOnce(t) ==
  _nthm_descendants_killed(
    [World EXCEPT !.p[ctx[t]].placeholder = FALSE], ctx[t], t)

\* the same called again where the first call left off
KilledTwice(t) == _nthm_descendants_killed(KilledOnce(t).w, ctx[t], t)

\* C40: _nthm_descendants_killed called a second time on the same drain
\* succeeds and leaves the state that the first call left
C40_KilledTwiceIsOnce ==
  \A t \in Workers \cup {Main} :
    (Running(t) /\ ctx[t] # 0) =>
      /\ KilledTwice(t).ok
      /\ KilledTwice(t).w = KilledOnce(t).w

\* C32: when nthm_read called by a thread without a context is refused with
\* NOT-DRAIN because the pipe is tethered to a drain, the yielded flag, the
\* killed flag and the tethering of the pipe are left as they were
C32_RefusedReadChangesNothing ==
  [][(/\ Came("read")
      /\ ~ last'.waited
      /\ ctx[last'.t] = 0
      /\ p[last'.s].reader # 0
      /\ last'.err = NTHM_NOTDRN)
       => /\ p'[last'.s].yielded = p[last'.s].yielded
          /\ p'[last'.s].killed = p[last'.s].killed
          /\ p'[last'.s].reader = p[last'.s].reader
          /\ p'[p[last'.s].reader].scope = p[p[last'.s].reader].scope]_vars

----------------------------------------------------------------------------
\* the error a call of nthm_kill on the pipe s by the thread t reports
kill_reports(t, s) ==
  LET r == _nthm_killable(Entered(t), s, t)
  IN  (IF r.ok THEN r.w ELSE IER(r.w, THE_IER(60))).err

\* C26: a call of nthm_kill that reports NOT-DRAIN, the caller not being the
\* drain of the pipe at the drain's current scope level, leaves the killed
\* flag of the pipe, its tethering and the lists of its drain as they were
C26_RefusedKillChangesNothing ==
  [][\A t \in Threads : \A s \in Workers :
       (nthm_kill(t, s) /\ kill_reports(t, s) = NTHM_NOTDRN)
         => /\ p'[s].killed = p[s].killed
            /\ p'[s].reader = p[s].reader
            /\ p'[p[s].reader].scope = p[p[s].reader].scope]_vars

----------------------------------------------------------------------------
\* C25: no thread is the target of pthread_join more than once: whenever a
\* call of pthread_join returns, in the relay race or in _nthm_synchronize,
\* its target has not been joined before; this covers the workers created
\* after an earlier nthm_sync has returned
C25_JoinedOnce ==
  [][/\ \A t \in Workers :
          relay_joined(t) => joins[th[t].f] = 0
     /\ synchronize_joined(Main) => joins[sy.finishing_thread] = 0]_vars

----------------------------------------------------------------------------
(* The start handshake alone: threads spawn and the new threads register,  *)
(* with nothing else going on.  Every new thread is scheduled until it has *)
(* registered, and every spawner is scheduled when it can run.             *)

\* a step of the sync module, which leaves the pipes alone
Handshake(A) == A /\ UNCHANGED pvars /\ tally' = tally /\ chan' = chan /\ held' = held /\ lk' = lk

NextStart ==
  \/ \E t \in Threads : Handshake(spawning(t))
  \/ \E t \in Threads : Handshake(_nthm_started(t))
  \/ \E t \in Workers : Handshake(registered_as_runner(t))
  \/ \E t \in Workers : Handshake(registered_as_starter(t))

SpecStart ==
  /\ Init
  /\ [][NextStart]_vars
  /\ \A t \in Workers : WF_vars(Handshake(registered_as_runner(t)))
  /\ \A t \in Workers : WF_vars(Handshake(registered_as_starter(t)))
  /\ \A t \in Threads : WF_vars(Handshake(_nthm_started(t)))

\* the spawner t is in _nthm_started
Starting(t) == th[t].at \in {"started", "started_wait"}

\* C14: with several spawners and new threads at once, every call of
\* _nthm_started returns in the end
C14_StartedReturns ==
  \A t \in Threads : Starting(t) ~> (th[t].at = "user")

\* a new thread has registered without a broadcast, the count of starters
\* having been above zero, while a spawner that was woken has yet to run
C14_Witness ==
  /\ sy.starters = 2
  /\ \E t \in Threads : th[t].at = "started_wait" /\ t \in woken

----------------------------------------------------------------------------
(* The reclamation of the root pool at exit, pool.c.  teardown calls       *)
(* _nthm_close_pool before _nthm_close_sync, so eradicate runs while the   *)
(* workers may still be running.  The thread that exits is at "eradicate"  *)
(* with the list q it took from the root pool, or at "erad_wait" in the    *)
(* untethered read of a placeholder, or at "closed" when eradicate is back.*)

\* the exiting thread holds the list q of pipes taken from the root pool
Eradicating(q) == [at |-> "eradicate", s |-> 0, q |-> q]

Closed == [at |-> "closed", s |-> 0]

\* the pipes in the root pool that are not in the list of the exiting thread
root_pipes(t) ==
  {x \in Pipes : p[x].valid /\ p[x].pool}
     \ (IF pc[t].at = "eradicate" THEN pc[t].q ELSE {})

\* eradicate is back with the error e
closing(t, w, e) ==
  \E v \in {w} :
    /\ p' = v.p
    /\ ctx' = v.ctx
    /\ sig' = v.sig \ {t}
    /\ pc' = [pc EXCEPT ![t] = Closed]
    /\ last' = Event(t, "close", 0, 0, e, FALSE)
    /\ Remembered(v.p, uv, yorder, deep)
    /\ unfit' = Unfit(v)

\* eradicate goes on with the list q unless an error has come up
continuing(t, w, q) ==
  \E v \in {w} :
    IF v.err # 0 THEN closing(t, v, v.err)
    ELSE /\ p' = v.p
         /\ ctx' = v.ctx
         /\ sig' = v.sig \ {t}
         /\ pc' = [pc EXCEPT ![t] = Eradicating(q)]
         /\ last' = Event(t, "reclaim", 0, 0, 0, FALSE)
         /\ Remembered(v.p, uv, yorder, deep)
         /\ unfit' = Unfit(v)

\* the top of the outer loop of eradicate: take the whole root pool, and
\* return if it is empty
reaped(t) ==
  /\ \/ Running(t)
     \/ pc[t].at = "eradicate" /\ pc[t].q \cap {x \in Pipes : p[x].pool} = {}
  /\ IF root_pipes(t) = {} THEN closing(t, World, 0)
     ELSE continuing(t, World, root_pipes(t))

\* the pipe x popped from the list is a worker or a placeholder not yet
\* killed: a placeholder is marked killed, and the pipe goes back to the pool
repooled(w, x) ==
  LET w1 == IF w.p[x].placeholder THEN [w EXCEPT !.p[x].killed = TRUE] ELSE w
      r  == _nthm_pooled(w1, x)
  IN  IF r.ok THEN r.w ELSE IER(r.w, THE_IER(218))

\* the body of the inner loop of eradicate for the pipe x popped from q
eradicate(t) ==
  /\ pc[t].at = "eradicate"
  /\ \E x \in pc[t].q :
       /\ p[x].valid
       /\ p[x].pool
       /\ \E v \in {_nthm_vacate_scopes(World, x, t)} :
          LET q  == pc[t].q \ {x}
              w1 == [v.w EXCEPT !.p[x].pool = FALSE]
          IN  IF v.hung THEN Hangs(t, v.w)
              ELSE IF ~ v.w.p[x].valid THEN closing(t, v.w, THE_IER(212))
              ELSE IF v.w.p[x].reader # 0 THEN closing(t, v.w, THE_IER(213))
              ELSE IF _nthm_retirable(w1, x)
                THEN continuing(t, _nthm_retired(w1, x).w, q)
              ELSE IF ~ (w1.p[x].placeholder /\ w1.p[x].killed)
                THEN continuing(t, repooled(w1, x), q)
              ELSE IF ~ w1.p[x].yielded
                THEN /\ p' = w1.p
                     /\ ctx' = w1.ctx
                     /\ sig' = w1.sig \ {t}
                     /\ pc' = [pc EXCEPT ![t] =
                                 [at |-> "erad_wait", s |-> x, q |-> q]]
                     /\ last' = Event(t, "wait", x, 0, 0, FALSE)
                     /\ Remembered(w1.p, uv, yorder, deep)
                     /\ unfit' = Unfit(w1)
              ELSE LET w2 == StatusTaken(w1, x)
                       r  == _nthm_killable(w2, x, t)
                   IN  continuing(t, IF r.ok /\ w2.p[x].result # 0
                                       THEN IER(r.w, THE_IER(219)) ELSE r.w, q)

\* the calls made before the exit and the steps of the exit
NextExit ==
  \/ Untallied(nthm_open(Main, MaxOpen))
  \/ \E s \in Workers : Untallied(nthm_untether(Main, s))
  \/ Untallied(nthm_enter_scope(Main))
  \/ \E t \in Workers, v \in Values : Untallied(_nthm_manager(t, v))
  \/ Untallied(reaped(Main))
  \/ Untallied(eradicate(Main))

SpecExit == Init /\ [][NextExit]_vars

\* every user function has returned: only the exiting thread still runs
AllReturned == \A t \in Workers : pc[t].at \in {"unborn", "done"}

\* C11 as stated, in the form a finite run decides.  If the reclamation ends
\* with every pipe of the pool retired whenever the user functions return,
\* then once they have all returned the exiting thread is not left waiting
\* for a signal, which no thread is left to send, and a pass of eradicate
\* over a pipe does not put the pipe back into the pool with every pipe as
\* it was, which the next pass can only repeat
C11_ReclamationEnds ==
  [][(AllReturned /\ pc[Main].at = "eradicate")
       => /\ pc'[Main].at # "erad_wait"
          /\ (pc'[Main].at = "eradicate" /\ pc'[Main].q # pc[Main].q)
               => p' # p]_vars

----------------------------------------------------------------------------
(* The tree of test/killjoy.c: the main thread and every worker open       *)
(* workers, kill some of their own children with nthm_kill or               *)
(* nthm_kill_all and collect the others with nthm_select and nthm_read.     *)
(* The user function of a worker returns when it has no child left or has   *)
(* seen nthm_killed return true.  The main thread exits when it has no      *)
(* child left, and the exit reclaims the root pool, where the pipes killed  *)
(* before they yielded are.                                                 *)

\* the threads of the tree
Kin == Workers \cup {Main}

\* the pipe s is tethered to the context of the thread t
Child(t, s) == ctx[t] # 0 /\ p[s].valid /\ p[s].reader = ctx[t]

\* what nthm_killed tells the worker t
nthm_killed(t) == p[t].valid /\ p[t].killed

\* the user function of the worker t may return
CanReturn(t) ==
  /\ pc[t].at = "user"
  /\ held[t] = 0
  /\ p[t].valid => (nthm_killed(t) \/ Childless(p[t].scope))

\* the user function of the worker t returns the value v
returning(t, v) == CanReturn(t) /\ _nthm_manager(t, v)

\* a step of the thread t in the tree: the pipe that nthm_select returns is
\* held by t until t has read it, which is the next thing t does; a call
\* that leaves every pipe, context, thread and signal as it was can only be
\* repeated, and is left out
Moving(t, A) ==
  /\ A
  /\ <<p, ctx, pc, sig>>' # <<p, ctx, pc, sig>>
  /\ held' = [held EXCEPT ![t] = IF last'.op = "select" /\ last'.t = t
                                   THEN last'.s ELSE 0]
  /\ tally' = tally
  /\ chan' = chan
  /\ lk' = lk
  /\ UNCHANGED svars

\* the thread t kills or collects a child
tending(t) ==
  \/ Moving(t, held[t] = 0 /\ ctx[t] # 0 /\ nthm_select(t))
  \/ \E s \in Workers :
       Moving(t, held[t] = 0 /\ Child(t, s) /\ nthm_read(t, s))
  \/ \E s \in Workers :
       Moving(t, held[t] = 0 /\ Child(t, s) /\ nthm_kill(t, s))
  \/ Moving(t, held[t] = 0 /\ ctx[t] # 0 /\ nthm_kill_all(t))
  \/ Moving(t, held[t] # 0 /\ nthm_read(t, held[t]))

\* the thread t can kill or collect a child: a read always acts
CanTend(t) ==
  /\ Running(t)
  /\ \/ held[t] = 0 /\ \E s \in Workers : Child(t, s)
     \/ held[t] # 0 /\ p[held[t]].valid

\* the thread t, woken in nthm_select or nthm_read, goes on
resuming(t) == Moving(t, select_resumed(t)) \/ Moving(t, read_resumed(t))

CanResume(t) == t \in sig /\ pc[t].at \in {"select_wait", "read_wait"}

\* the main thread, with no child left, exits
leaving(t) ==
  Moving(t, pc[t].at = "user" /\ held[t] = 0 /\ ctx[t] = 0 /\ reaped(t))

\* a step of eradicate after the first
reclaiming(t) ==
  \/ Moving(t, pc[t].at = "eradicate" /\ reaped(t))
  \/ Moving(t, eradicate(t))

NextTree ==
  \/ \E t \in Kin : Moving(t, held[t] = 0 /\ nthm_open(t, MaxWorkers))
  \/ \E t \in Kin : tending(t)
  \/ \E t \in Kin : resuming(t)
  \/ \E t \in Workers : Moving(t, returning(t, 1))
  \/ leaving(Main)
  \/ reclaiming(Main)

\* Every thread is scheduled: a thread that stays able to kill or collect a
\* child, to go on after a wakeup, to return from its user function or to
\* go on with the reclamation does so in the end.  Weak fairness of an
\* action A whose enabling condition is E is written []<>~E \/ []<><<A>>_vars
\* where E is a plain condition on the state.
SpecTree ==
  /\ Init
  /\ [][NextTree]_vars
  /\ WF_vars(leaving(Main))
  /\ ([]<>(pc[Main].at # "eradicate")) \/ ([]<><<reclaiming(Main)>>_vars)
  /\ \A t \in Workers :
       ([]<>(~ CanReturn(t))) \/ ([]<><<Moving(t, returning(t, 1))>>_vars)
  /\ \A t \in Kin : ([]<>(~ CanTend(t))) \/ ([]<><<tending(t)>>_vars)
  /\ \A t \in Kin : ([]<>(~ CanResume(t))) \/ ([]<><<resuming(t)>>_vars)

\* every worker created has finished, the exit of the main thread is over
\* and every pipe has been retired
AllRetired ==
  /\ \A t \in Workers : pc[t].at \in {"unborn", "done"}
  /\ pc[Main] = Closed
  /\ \A x \in Pipes : ~ p[x].valid

\* C30: in the tree, where every drain kills some of its children and
\* collects the others and every user function returns once nthm_killed is
\* true, every worker and the root finish and every pipe is retired in the
\* end
C30_TreeWindsUp == <>[]AllRetired

\* a worker that is itself a child holds a finished child it has selected
\* while a worker that was killed is still running
C30_Witness ==
  \E d, s, u \in Workers :
    /\ s # u
    /\ p[d].valid /\ p[d].reader # 0
    /\ p[s].valid /\ p[s].killed /\ ~ p[s].yielded
    /\ held[d] = u /\ p[u].valid /\ p[u].yielded

----------------------------------------------------------------------------
(* The locks of the pipes.  A call is made in steps: the locks and unlocks *)
(* the code makes up to the place where it changes the pipes, the change,  *)
(* made in one step by the action of the call while those locks are held,  *)
(* and the unlocks and locks that come after it.  A thread waits for a     *)
(* lock that another thread owns.                                          *)

\* pthread_mutex_lock and pthread_mutex_unlock on the lock of the pipe x
Lock(x) == [op |-> "lock", x |-> x, s |-> 0, c |-> "none"]

Unlock(x) == [op |-> "unlock", x |-> x, s |-> 0, c |-> "none"]

\* the lock of x taken and released with no other lock taken in between
Touch(x) == [op |-> "touch", x |-> x, s |-> 0, c |-> "none"]

\* the lock of the drain d taken by _nthm_tethered, which holds the lock of
\* the source s, when s has no reader and has not been killed
LockDrain(s, d) == [op |-> "lock_drain", x |-> d, s |-> s, c |-> "none"]

\* the lock of the pipe that is the reader of s, taken by tethered_yield,
\* which holds the lock of s
LockReader(s) == [op |-> "lock_reader", x |-> 0, s |-> s, c |-> "none"]

\* one turn of the loop of _nthm_heritably_killed_or_yielded, which holds
\* the lock of s
Climb(s) == [op |-> "climb", x |-> 0, s |-> s, c |-> "none"]

\* the change the call c makes to the pipes
Act(c, s) == [op |-> "act", x |-> 0, s |-> s, c |-> c]

\* the locks of _nthm_heritably_killed_or_yielded called on the drain d
heritably(d) == IF d = 0 THEN <<>> ELSE <<Lock(d), Climb(d)>>

\* the locks of _nthm_untethered on the source s of the drain d up to the
\* place where both lists lose s
untethering(s, d) ==
  IF p[s].reader = 0 THEN <<Touch(s)>>
  ELSE IF _nthm_drained_by(World, s, d) THEN <<Lock(s), Lock(d)>>
  ELSE <<>>

\* the locks of the loop of blockers_killed on the drain d for the blockers bs
RECURSIVE KillEach(_, _)
KillEach(bs, d) ==
  IF bs = <<>> THEN <<>>
  ELSE <<Unlock(d), Touch(Head(bs)), Lock(Head(bs)), Lock(d), Unlock(d),
         Unlock(Head(bs)), Touch(d), Touch(Head(bs)), Lock(d)>>
         \o KillEach(Tail(bs), d)

\* the locks of _nthm_descendants_killed on the drain d up to the place where
\* it retires the finishers
descendants_killing(d) ==
  IF ~ p[d].valid THEN <<>>
  ELSE <<Lock(d)>> \o KillEach(Head(p[d].scope).blockers, d)
         \o <<Unlock(d), Lock(d)>>

\* a yield that locks the drain before the source
yielding_drain_first(t) ==
  descendants_killing(t) \o <<Unlock(t), LockReader(t), Lock(t)>>

\* the locks of yield in the manager of the worker t
yielding(t) ==
  descendants_killing(t) \o <<Unlock(t), Lock(t), LockReader(t)>>

\* the locks of nthm_read on the source s by a thread whose context is d,
\* where wakes tells that the read does not wait
reading(s, d, wakes) ==
  IF p[s].reader # 0 /\ ~ _nthm_drained_by(World, s, d)
    THEN <<Lock(s), Unlock(s), Touch(s)>>
  ELSE <<Lock(s), LockDrain(s, d), Unlock(d), Unlock(s), Touch(s), Lock(d)>>
         \o (IF wakes THEN <<Unlock(d), Touch(s), Lock(s), Lock(d)>>
             ELSE <<>>)

\* the locks a call c of the thread t on the pipe s takes before its change
Before(t, c, s) ==
  LET d == ctx[t]
  IN  CASE c = "open" -> heritably(d)
        [] c = "tether" ->
             heritably(d) \o <<Lock(s), LockDrain(s, IF d = 0 THEN t ELSE d)>>
        [] c = "read" ->
             IF d = 0 THEN <<Lock(s)>>
             ELSE reading(s, d, p[s].yielded \/ p[d].killed)
        [] c = "read_resumed" ->
             IF pc[t].at = "uread_wait" THEN <<Lock(pc[t].s)>>
             ELSE <<Lock(d)>>
                    \o (IF p[pc[t].s].yielded \/ p[d].killed
                          THEN <<Unlock(d), Touch(pc[t].s),
                                 Lock(pc[t].s), Lock(d)>>
                          ELSE <<>>)
        [] c \in {"select", "select_resumed"} ->
             IF d = 0 THEN <<>> ELSE <<Lock(d)>>
        [] c = "kill" -> <<Touch(s)>> \o untethering(s, d)
        [] c = "untether" -> untethering(s, d)
        [] c = "kill_all" -> IF d = 0 THEN <<>> ELSE descendants_killing(d)
        [] c = "yield" -> yielding(t)

RECURSIVE Backwards(_)
Backwards(q) ==
  IF q = <<>> THEN <<>> ELSE Backwards(Tail(q)) \o <<Head(q)>>

\* the unlocks of the locks the thread t holds, the latest first, and then
\* the tests of _nthm_unpool and _nthm_pooled on the same pipes
Releasing(t) ==
  LET q == Backwards(lk.hold[t])
  IN  [i \in 1..Len(q) |-> Unlock(q[i])] \o [i \in 1..Len(q) |-> Touch(q[i])]

\* the pipe whose lock the thread t asks for in its next step, 0 if none,
\* when the locks are l
Asked(l, t) ==
  LET h == Head(l.todo[t])
  IN  IF l.todo[t] = <<>> THEN 0
      ELSE IF h.op \in {"lock", "touch"} /\ p[h.x].valid THEN h.x
      ELSE IF /\ h.op = "lock_drain"
              /\ p[h.x].valid /\ p[h.s].valid
              /\ p[h.s].reader = 0 /\ ~ p[h.s].killed THEN h.x
      ELSE IF /\ h.op \in {"lock_reader", "climb"}
              /\ p[h.s].valid
              /\ (h.op = "lock_reader" => ~ p[h.s].killed)
              /\ (h.op = "climb" => ~ (p[h.s].yielded \/ p[h.s].killed))
              /\ p[h.s].reader # 0
              /\ p[p[h.s].reader].valid THEN p[h.s].reader
      ELSE 0

Requested(t) == Asked(lk, t)

\* the locks l after the unlocks that the thread t has next: an unlock waits
\* for nothing, so that it is made in the step that comes before it
RECURSIVE Given(_, _)
Given(l, t) ==
  IF l.todo[t] # <<>> /\ Head(l.todo[t]).op = "unlock"
    THEN Given([owner |-> [l.owner EXCEPT ![Head(l.todo[t]).x] =
                             IF @ = t THEN 0 ELSE @],
                hold  |-> [l.hold EXCEPT ![t] =
                             Without(@, Head(l.todo[t]).x)],
                todo  |-> [l.todo EXCEPT ![t] = Tail(@)]], t)
    ELSE l

\* the next step of the thread t waits for no lock that another thread owns
Free(l, t) == Asked(l, t) # 0 => l.owner[Asked(l, t)] \in {0, t}

\* the locks l after the next step of the thread t, which takes a lock, or
\* passes over the lock of a pipe that is there no more
Taken(l, t) ==
  LET h    == Head(l.todo[t])
      rest == Tail(l.todo[t])
      x    == Asked(l, t)
  IN  IF h.op = "touch" \/ x = 0 \/ l.owner[x] = t
        THEN Given([l EXCEPT !.todo[t] =
                      IF h.op = "climb" THEN <<Unlock(h.s)>> \o rest
                      ELSE rest], t)
      ELSE Given([owner |-> [l.owner EXCEPT ![x] = t],
                  hold  |-> [l.hold EXCEPT ![t] = Append(@, x)],
                  todo  |-> [l.todo EXCEPT ![t] =
                               IF h.op # "climb" THEN rest
                               ELSE IF p[x].yielded \/ p[x].killed
                                 THEN <<Unlock(x), Unlock(h.s)>> \o rest
                               ELSE <<Unlock(h.s), Climb(x)>> \o rest]], t)

\* the thread t begins the call c on the pipe s, and takes the first of its
\* locks if it has one to take
Begin(t, c, s) ==
  /\ lk.todo[t] = <<>>
  /\ \E l \in {[lk EXCEPT !.todo[t] = Before(t, c, s) \o <<Act(c, s)>>]} :
       IF Head(l.todo[t]).op = "act" THEN lk' = l
       ELSE Free(l, t) /\ lk' = Taken(l, t)
  /\ UNCHANGED <<pvars, tally, svars, chan, held>>

\* a step of the thread t that takes a lock
lock_step(t) ==
  /\ lk.todo[t] # <<>>
  /\ Head(lk.todo[t]).op # "act"
  /\ Free(lk, t)
  /\ lk' = Taken(lk, t)
  /\ UNCHANGED <<pvars, tally, svars, chan, held>>

\* the change of the call the thread t is in
change(t) ==
  LET h == Head(lk.todo[t])
  IN  \/ h.c = "open" /\ nthm_open(t, MaxOpen)
      \/ h.c = "tether" /\ nthm_tether(t, h.s)
      \/ h.c = "read" /\ nthm_read(t, h.s)
      \/ h.c = "read_resumed" /\ read_resumed(t)
      \/ h.c = "select" /\ nthm_select(t)
      \/ h.c = "select_resumed" /\ select_resumed(t)
      \/ h.c = "kill" /\ nthm_kill(t, h.s)
      \/ h.c = "untether" /\ nthm_untether(t, h.s)
      \/ h.c = "kill_all" /\ nthm_kill_all(t)
      \/ h.c = "yield" /\ _nthm_manager(t, 1)

\* the call the thread t is in has nothing to act on any more
Void(t) ==
  LET h == Head(lk.todo[t])
  IN  \/ ~ Running(t)
      \/ h.s # 0 /\ (~ p[h.s].valid \/ h.s = ctx[t])

\* the thread t makes the change of its call holding the locks it has taken;
\* a thread that then waits on a condition gives up its locks, as
\* pthread_cond_wait does, and a thread that comes back goes on to unlock
act_step(t) ==
  /\ lk.todo[t] # <<>>
  /\ Head(lk.todo[t]).op = "act"
  /\ Piped(change(t))
  /\ lk' =
       IF pc'[t].at \in {"read_wait", "uread_wait", "select_wait"}
         THEN [owner |-> [x \in Pipes |->
                            IF lk.owner[x] = t THEN 0 ELSE lk.owner[x]],
               hold  |-> [lk.hold EXCEPT ![t] = <<>>],
               todo  |-> [lk.todo EXCEPT ![t] = <<>>]]
       ELSE Given([lk EXCEPT !.todo[t] =
                     Releasing(t)
                       \o (IF Head(lk.todo[t]).c = "open" /\ last'.s # 0
                             THEN <<Lock(last'.s), Lock(ctx'[t]),
                                    Unlock(ctx'[t]), Unlock(last'.s),
                                    Touch(last'.s)>>
                             ELSE <<>>)], t)

\* the pipe of the call is gone, or is the caller's own: the call returns an
\* error after giving up its locks
abandoned(t) ==
  /\ lk.todo[t] # <<>>
  /\ Head(lk.todo[t]).op = "act"
  /\ Head(lk.todo[t]).c \notin {"yield", "read_resumed", "select_resumed"}
  /\ Void(t)
  /\ lk' = Given([lk EXCEPT !.todo[t] = Releasing(t)], t)
  /\ UNCHANGED <<pvars, tally, svars, chan, held>>

\* the threads that call in the specification of the locks
LockCallers == {Main, 1}

NextLock ==
  \/ \E t \in LockCallers : Running(t) /\ Begin(t, "open", 0)
  \/ \E s \in Workers :
       Running(Main) /\ p[s].valid /\ Begin(Main, "read", s)
  \/ \E t \in Threads :
       /\ t \in sig
       /\ pc[t].at \in {"read_wait", "uread_wait"}
       /\ Begin(t, "read_resumed", 0)
  \/ \E s \in Workers :
       Running(Main) /\ p[s].valid /\ Begin(Main, "kill", s)
  \/ \E s \in Workers :
       Running(Main) /\ p[s].valid /\ Begin(Main, "untether", s)
  \/ \E s \in Workers :
       Running(Main) /\ p[s].valid /\ Begin(Main, "tether", s)
  \/ Running(Main) /\ ctx[Main] # 0 /\ Begin(Main, "kill_all", 0)
  \/ Running(Main) /\ Begin(Main, "select", 0)
  \/ \E t \in Threads :
       t \in sig /\ pc[t].at = "select_wait" /\ Begin(t, "select_resumed", 0)
  \/ \E t \in Workers : pc[t].at = "user" /\ Begin(t, "yield", 0)
  \/ \E t \in Threads : lock_step(t)
  \/ \E t \in Threads : act_step(t)
  \/ \E t \in Threads : abandoned(t)

SpecLock == Init /\ [][NextLock]_vars

\* C31: no thread asks for the lock of a source while it holds the lock of
\* the drain of that source, and of the locks of two adjacent pipes of the
\* tether chain that a thread holds together, that of the source was taken
\* first
C31_SourceLockedFirst ==
  \A t \in Threads :
    /\ Requested(t) # 0 =>
         \A i \in 1..Len(lk.hold[t]) :
           p[Requested(t)].reader # lk.hold[t][i]
    /\ \A i, j \in 1..Len(lk.hold[t]) :
         i < j => p[lk.hold[t][j]].reader # lk.hold[t][i]

\* a thread holds the locks of a source and of its drain while another
\* thread waits for one of them
C31_Witness ==
  \E t, u \in Threads :
    /\ t # u
    /\ Len(lk.hold[t]) = 2
    /\ p[lk.hold[t][1]].reader = lk.hold[t][2]
    /\ Requested(u) # 0
    /\ lk.owner[Requested(u)] = t

----------------------------------------------------------------------------
(* A worker that collects: the main thread and worker 1 open workers,      *)
(* read, kill, untether and tether pipes, worker 1 takes those that have   *)
(* finished with nthm_select, and its user function returns at any time.   *)

\* the workers whose user function opens and collects
Reapers == {1}

\* a step of the thread t: the pipe that nthm_select has returned to a
\* thread is held by the thread for as long as the pipe is valid and has
\* neither a reader nor a place in the root pool
Keeping(t, A) ==
  /\ A
  /\ tally' = tally /\ chan' = chan /\ lk' = lk
  /\ UNCHANGED svars
  /\ held' = [x \in Threads |->
                LET h == IF x = t /\ last'.op = "select" /\ last'.s # 0
                           THEN last'.s ELSE held[x]
                IN  IF h # 0 /\ p'[h].valid /\ p'[h].reader = 0 /\ ~ p'[h].pool
                      THEN h ELSE 0]

NextReap ==
  \/ \E t \in {Main} \cup Reapers : Keeping(t, nthm_open(t, MaxWorkers))
  \/ \E t \in Reapers : Keeping(t, nthm_select(t))
  \/ \E t \in Threads : Keeping(t, select_resumed(t))
  \/ \E t \in {Main} \cup Reapers, s \in Workers : Keeping(t, nthm_read(t, s))
  \/ \E t \in Threads : Keeping(t, read_resumed(t))
  \/ \E t \in {Main} \cup Reapers, s \in Workers : Keeping(t, nthm_kill(t, s))
  \/ \E t \in {Main} \cup Reapers, s \in Workers :
       Keeping(t, nthm_untether(t, s))
  \/ \E t \in {Main} \cup Reapers, s \in Workers :
       Keeping(t, nthm_tether(t, s))
  \/ \E t \in Workers : Keeping(t, _nthm_manager(t, 1))

SpecReap == Init /\ [][NextReap]_vars

\* C38: when a worker yields, every pipe tethered to it, running or finished,
\* and the pipe nthm_select has returned to it and it has not read, is
\* retired or in the root pool
C38_YieldLeavesNoOrphan ==
  [][\A t, s \in Workers :
       (/\ pc[t].at = "user" /\ pc'[t] = Done
        /\ p[t].valid /\ p[s].valid
        /\ p[s].reader = t \/ held[t] = s)
         => (~ p'[s].valid \/ p'[s].pool)]_vars

====
